---- MODULE Spec2Model ----
(***************************************************************************)
(* The criteria compiler of massive (chatter-api/node_modules/massive):    *)
(* the key resolver (util/parse-key.js), the operator table and its        *)
(* mutators (statement/operations.js), the predicate compiler              *)
(* (Readable.conjoin / disjoin / predicate) and the statements built on    *)
(* them.                                                                   *)
(*                                                                         *)
(* A JavaScript string is a sequence of one-character strings, so that the *)
(* lexer, the template literals and String.prototype.indexOf are computed  *)
(* character by character.  A JavaScript value is a record of one shape,   *)
(* [t, n, s, a]: its type tag, its number, its characters and its          *)
(* elements.                                                               *)
(***************************************************************************)
EXTENDS Integers, Sequences, FiniteSets, TLC

VARIABLES
  pc,          \* position of the current call: "ready", then the call made
  source,      \* the Readable the call is made on
  key,         \* parseKey / order field: the field reference
  jsonAsText,  \* parseKey: the caller's jsonAsText argument
  orderType,   \* buildOrderExpression: orderObj.type (UNDEF when absent)
  parsed,      \* what parseKey returned
  orderExpr,   \* what buildOrderExpression returned
  criteria,    \* the criteria argument
  offset,      \* predicate: the offset argument
  kind,        \* predicate: forWhere, forJoin or forDoc
  joinAlias,   \* predicate: the alias argument of a forJoin compile
  changes,     \* Update: the changes argument
  assemblage,  \* what Readable.predicate returned
  statement,   \* the Select, Update or Delete constructed
  formats,     \* how many times format() was called on the statement
  sql,         \* what the last format() returned
  selectOptions, \* Select: the options argument
  callerDefinition, \* join: the caller's definition object, as it is now
  originalDefinition, \* join: the definition as the caller first wrote it
  entityCache, \* db.entityCache: the compounds join has cached, by name
  joinResult,  \* what the last join() returned
  returned,    \* which compound each join() so far returned
  operations,  \* the operator table of the operations module, as it is now
  compiles,    \* what each predicate() call of a repeated compile returned
  pkSearch,    \* what isPkSearch returned
  insertRecord, \* Insert: the record argument
  insertOptions \* Insert: the options argument

vars == <<pc, source, key, jsonAsText, orderType, parsed, orderExpr,
          criteria, offset, kind, joinAlias, changes, assemblage, statement,
          formats, sql, selectOptions, callerDefinition, originalDefinition,
          entityCache, joinResult, returned, operations, compiles,
          pkSearch, insertRecord, insertOptions>>

joinVars == <<callerDefinition, originalDefinition, entityCache, joinResult,
              returned>>

compileVars == <<operations, compiles>>

insertVars == <<insertRecord, insertOptions>>

keyVars == <<key, jsonAsText, orderType, parsed, orderExpr>>
predVars == <<criteria, offset, kind, joinAlias, changes, assemblage, statement,
              formats, sql>>

(***************************************************************************)
(* Strings                                                                 *)
(***************************************************************************)

\* undefined, where the code holds a string or undefined
UNDEF == <<>>

S_undefined == <<"u","n","d","e","f","i","n","e","d">>

\* `${x}` of a string that may be undefined
Interp(s) == IF s = UNDEF THEN S_undefined ELSE s

Whitespace == {" ", "\t", "\r", "\n"}

RECURSIVE TrimLeft(_)
TrimLeft(s) ==
  IF s # <<>> /\ Head(s) \in Whitespace THEN TrimLeft(Tail(s)) ELSE s

RECURSIVE TrimRight(_)
TrimRight(s) ==
  IF s # <<>> /\ s[Len(s)] \in Whitespace
    THEN TrimRight(SubSeq(s, 1, Len(s) - 1))
    ELSE s

\* String.prototype.trim
Trim(s) == TrimRight(TrimLeft(s))

\* Array.prototype.join
RECURSIVE JoinWith(_, _)
JoinWith(strs, sep) ==
  IF strs = <<>> THEN <<>>
  ELSE IF Len(strs) = 1 THEN strs[1]
  ELSE strs[1] \o sep \o JoinWith(Tail(strs), sep)

\* String.prototype.indexOf(sub) > -1
Includes(s, sub) ==
  \E i \in 0..(Len(s) - Len(sub)) : SubSeq(s, i + 1, i + Len(sub)) = sub

UpperCase == <<"A","B","C","D","E","F","G","H","I","J","K","L","M",
               "N","O","P","Q","R","S","T","U","V","W","X","Y","Z">>
LowerCase == <<"a","b","c","d","e","f","g","h","i","j","k","l","m",
               "n","o","p","q","r","s","t","u","v","w","x","y","z">>

LowerChar(c) ==
  IF \E i \in 1..Len(UpperCase) : UpperCase[i] = c
    THEN LowerCase[CHOOSE i \in 1..Len(UpperCase) : UpperCase[i] = c]
    ELSE c

\* String.prototype.toLowerCase
ToLowerCase(s) == [i \in 1..Len(s) |-> LowerChar(s[i])]

DigitChars == <<"0","1","2","3","4","5","6","7","8","9">>

\* `${n}` of a non-negative integer
RECURSIVE Digits(_)
Digits(n) ==
  IF n < 10 THEN <<DigitChars[n + 1]>>
  ELSE Digits(n \div 10) \o <<DigitChars[(n % 10) + 1]>>

\* `$${n}`: a prepared-statement placeholder
Placeholder(n) == <<"$">> \o Digits(n)

\* util/quote.js
quote(str) == <<"\"">> \o Interp(str) \o <<"\"">>

(***************************************************************************)
(* util/parse-key.js: lex                                                  *)
(***************************************************************************)

LexStart ==
  [pathShape |-> <<>>, tokens |-> << <<>> >>, inQuotation |-> FALSE,
   hasCast |-> FALSE, jsonAsText |-> FALSE]

\* buffer = tokens[tokens.push([]) - 1]
NewToken(st) == [st EXCEPT !.tokens = Append(@, <<>>)]

\* buffer.push(char): the buffer is always the last token array
PushChar(st, char) ==
  [st EXCEPT !.tokens[Len(st.tokens)] = Append(@, char)]

LastOfBuffer(st) ==
  LET buffer == st.tokens[Len(st.tokens)]
  IN IF buffer = <<>> THEN "" ELSE buffer[Len(buffer)]

PopChar(st) ==
  [st EXCEPT !.tokens[Len(st.tokens)] = SubSeq(@, 1, Len(@) - 1)]

\* one turn of the do-while loop of lex
LexChar(st, char) ==
  IF st.inQuotation /\ char # "\""
    THEN PushChar(st, char)
  ELSE IF char = "\""
    THEN [(IF st.inQuotation THEN NewToken(st) ELSE st)
            EXCEPT !.inQuotation = ~st.inQuotation]
  ELSE IF char = ":"
    THEN IF LastOfBuffer(st) = ":"
           THEN IF ~st.hasCast
                  THEN NewToken([PopChar(st) EXCEPT !.hasCast = TRUE,
                                                    !.jsonAsText = TRUE])
                  ELSE PopChar(st)
           ELSE PushChar(st, char)
  ELSE IF char = "."
    THEN NewToken([st EXCEPT !.pathShape = Append(@, TRUE)])
  ELSE IF char = "["
    THEN NewToken([st EXCEPT !.pathShape = Append(@, FALSE)])
  ELSE IF char = "]"
    THEN NewToken(st)
  ELSE IF char \in Whitespace
    THEN NewToken(st)
  ELSE PushChar(st, char)

RECURSIVE LexLoop(_, _, _)
LexLoop(k, i, st) ==
  IF i > Len(k) THEN st ELSE LexLoop(k, i + 1, LexChar(st, k[i]))

\* tokens.reduce: join and trim each token array, keep the non-empty ones
RECURSIVE CollectTokens(_)
CollectTokens(tokens) ==
  IF tokens = <<>> THEN <<>>
  ELSE LET str == Trim(Head(tokens))
       IN (IF str # <<>> THEN <<str>> ELSE <<>>) \o CollectTokens(Tail(tokens))

\* the return statement of lex
LexReturn(st) ==
  [pathShape |-> st.pathShape,
   jsonAsText |-> st.jsonAsText,
   hasCast |-> st.hasCast,
   tokens |-> CollectTokens(st.tokens)]

lex(k) == LexReturn(LexLoop(Trim(k), 1, LexStart))

(***************************************************************************)
(* util/parse-key.js: parseKey                                             *)
(***************************************************************************)

\* tokens[i], undefined past the end
Tok(tokens, i) == IF i <= Len(tokens) THEN tokens[i] ELSE UNDEF

\* Array.prototype.splice(0, n) / shift: what is left
Drop(s, n) == IF n >= Len(s) THEN <<>> ELSE SubSeq(s, n + 1, Len(s))

\* Array.prototype.splice(0, n): what is removed
Take(s, n) == IF n >= Len(s) THEN s ELSE SubSeq(s, 1, n)

\* j.alias.indexOf(tokens[0]) > -1
AliasHit(j, tokens) == Includes(j.alias, Interp(Tok(tokens, 1)))

\* source.joins.some(...): the first join node one of the cases 3-5 accepts
RECURSIVE SomeJoin(_, _, _, _)
SomeJoin(joins, i, tokens, pathShape) ==
  IF i > Len(joins)
    THEN [matched |-> FALSE, alias |-> UNDEF, schema |-> UNDEF,
          relation |-> UNDEF, tokens |-> tokens, pathShape |-> pathShape]
  ELSE LET j == joins[i] IN
    IF AliasHit(j, tokens)
      THEN [matched |-> TRUE, alias |-> Tok(tokens, 1), schema |-> UNDEF,
            relation |-> UNDEF, tokens |-> Drop(tokens, 1),
            pathShape |-> Drop(pathShape, 1)]
    ELSE IF j.relation = Tok(tokens, 1)
      THEN [matched |-> TRUE, alias |-> j.alias, schema |-> UNDEF,
            relation |-> Tok(tokens, 1), tokens |-> Drop(tokens, 1),
            pathShape |-> Drop(pathShape, 1)]
    ELSE IF j.schema = Tok(tokens, 1) /\ j.relation = Tok(tokens, 2)
      THEN [matched |-> TRUE, alias |-> j.alias, schema |-> Tok(tokens, 1),
            relation |-> Tok(tokens, 2), tokens |-> Drop(tokens, 2),
            pathShape |-> Drop(pathShape, 2)]
    ELSE SomeJoin(joins, i + 1, tokens, pathShape)

\* case 6: no token matches any member relation
AssumeOrigin(src, some) ==
  IF some.matched THEN some
  ELSE [some EXCEPT !.schema = src.schema, !.relation = src.name]

\* the cases 1-6 for a compound Readable; nothing is stripped otherwise
ResolveRelation(src, tokens, pathShape) ==
  IF src.loader # "join"
    THEN [matched |-> FALSE, alias |-> UNDEF, schema |-> UNDEF,
          relation |-> UNDEF, tokens |-> tokens, pathShape |-> pathShape]
  ELSE IF src.name = Tok(tokens, 1)
    THEN [matched |-> TRUE, alias |-> UNDEF, schema |-> UNDEF,
          relation |-> Tok(tokens, 1), tokens |-> Drop(tokens, 1),
          pathShape |-> Drop(pathShape, 1)]
  ELSE IF src.schema = Tok(tokens, 1) /\ src.name = Tok(tokens, 2)
    THEN [matched |-> TRUE, alias |-> UNDEF, schema |-> Tok(tokens, 1),
          relation |-> Tok(tokens, 2), tokens |-> Drop(tokens, 2),
          pathShape |-> Drop(pathShape, 2)]
  ELSE AssumeOrigin(src, SomeJoin(src.joins, 1, tokens, pathShape))

\* _.compact
Compact(strs) == SelectSeq(strs, LAMBDA s : s # UNDEF)

MapQuote(strs) == [i \in 1..Len(strs) |-> quote(strs[i])]

S_arrowText == <<"-",">",">">>
S_arrow == <<"-",">">>
S_hashText == <<"#",">",">">>
S_hash == <<"#",">">>

\* the JSON traversal, lines 195-213
JsonLhs(path, lexed, tokens, pathShape, asText) ==
  IF Len(pathShape) = 1
    THEN LET operator == IF lexed.jsonAsText \/ asText
                           THEN S_arrowText ELSE S_arrow
             element == Interp(Tok(tokens, 1))
         IN IF pathShape[1]
              THEN path \o operator \o <<"'">> \o element \o <<"'">>
              ELSE path \o operator \o element
  ELSE IF Len(pathShape) > 0
    THEN LET operator == IF asText THEN S_hashText ELSE S_hash
             jsonElements == Take(tokens, Len(pathShape))
         IN path \o operator \o <<"'", "{">>
              \o JoinWith(jsonElements, <<",">>) \o <<"}", "'">>
  ELSE path

\* lines 184-235, given the tokens and the path shape left after the relation
\* is resolved: tokens1 follow the field, tokens2 the JSON path, tokens3 the cast
ParseField(lexed, res, src, asText, path, tokens1) ==
  LET pathShape == res.pathShape
      tokens2 == IF Len(pathShape) = 1 THEN Drop(tokens1, 1)
                 ELSE Drop(tokens1, Len(pathShape))
      tokens3 == IF lexed.hasCast THEN Drop(tokens2, 1) ELSE tokens2
  IN [schema |-> res.schema,
      relation |-> IF res.relation # UNDEF THEN res.relation
                   ELSE IF res.alias # UNDEF THEN res.alias
                   ELSE src.name,
      alias |-> res.alias,
      field |-> Tok(res.tokens, 1),
      path |-> path,
      lhs |-> IF lexed.hasCast
                THEN IF Len(pathShape) > 0
                       THEN <<"(">> \o JsonLhs(path, lexed, tokens1, pathShape, asText)
                              \o <<")", ":", ":">> \o Interp(Tok(tokens2, 1))
                       ELSE path \o <<":", ":">> \o Interp(Tok(tokens2, 1))
                ELSE JsonLhs(path, lexed, tokens1, pathShape, asText),
      jsonElements |-> IF Len(pathShape) = 1 THEN <<Tok(tokens1, 1)>>
                       ELSE Take(tokens1, Len(pathShape)),
      remainder |-> IF Len(tokens3) > 0
                      THEN ToLowerCase(JoinWith(tokens3, <<" ">>))
                      ELSE UNDEF,
      isJSON |-> Len(pathShape) > 0]

\* pathElements.map(quote).join('.')
PathOf(res, src) ==
  JoinWith(
    MapQuote(
      Compact(<<IF res.alias # UNDEF \/ res.schema = src.currentSchema
                  THEN UNDEF ELSE res.schema,
                IF res.alias # UNDEF THEN res.alias ELSE res.relation,
                Tok(res.tokens, 1)>>)),
    <<".">>)

ParseResolved(lexed, res, src, asText) ==
  ParseField(lexed, res, src, asText, PathOf(res, src), Drop(res.tokens, 1))

ParseLexed(lexed, src, asText) ==
  ParseResolved(lexed, ResolveRelation(src, lexed.tokens, lexed.pathShape),
                src, asText)

parseKey(k, src, asText) == ParseLexed(lex(k), src, asText)

(***************************************************************************)
(* JavaScript values                                                       *)
(***************************************************************************)

Val(t, n, s, a) == [t |-> t, n |-> n, s |-> s, a |-> a]

Null == Val("null", 0, <<>>, <<>>)
Undefined == Val("undefined", 0, <<>>, <<>>)
Bool(b) == Val("boolean", IF b THEN 1 ELSE 0, <<>>, <<>>)
Num(n) == Val("number", n, <<>>, <<>>)
Str(s) == Val("string", 0, s, <<>>)
\* a Date, identified by its time value
Date(n) == Val("date", n, <<>>, <<>>)
Arr(a) == Val("array", 0, <<>>, a)
\* one key: value pair of a plain object, and the plain object
Ent(k, v) == Val("entry", 0, k, <<v>>)
Obj(entries) == Val("object", 0, <<>>, entries)

\* the truthiness `if (value)` tests
Truthy(v) ==
  CASE v.t \in {"null", "undefined"} -> FALSE
    [] v.t = "boolean" -> v.n = 1
    [] v.t = "number" -> v.n # 0
    [] v.t = "string" -> v.s # <<>>
    [] OTHER -> TRUE

S_null == <<"n","u","l","l">>
S_true == <<"t","r","u","e">>
S_false == <<"f","a","l","s","e">>
S_objectObject == <<"[","o","b","j","e","c","t"," ","O","b","j","e","c","t","]">>

\* `${value}`: String(value).  A Date prints as Date(<time value>) here, which
\* stands for the text Date.prototype.toString gives it.
RECURSIVE ToStr(_)
ToStr(v) ==
  CASE v.t = "null" -> S_null
    [] v.t = "undefined" -> S_undefined
    [] v.t = "boolean" -> IF v.n = 1 THEN S_true ELSE S_false
    [] v.t = "number" -> Digits(v.n)
    [] v.t = "string" -> v.s
    [] v.t = "date" -> <<"D","a","t","e","(">> \o Digits(v.n) \o <<")">>
    [] v.t = "array" ->
         JoinWith([i \in 1..Len(v.a) |->
                     IF v.a[i].t \in {"null", "undefined"} THEN <<>>
                     ELSE ToStr(v.a[i])], <<",">>)
    [] OTHER -> S_objectObject

\* value[i] of any value (i counted from 0)
Index(v, i) ==
  CASE v.t = "array" -> IF i < Len(v.a) THEN v.a[i + 1] ELSE Undefined
    [] v.t = "string" -> IF i < Len(v.s) THEN Str(<<v.s[i + 1]>>) ELSE Undefined
    [] OTHER -> Undefined

\* Array.prototype.concat(x): an array argument is spread, any other appended
Concat(list, x) == IF x.t = "array" THEN list \o x.a ELSE Append(list, x)

(***************************************************************************)
(* statement/operations.js                                                 *)
(***************************************************************************)

S_timestamptz == <<":",":","t","i","m","e","s","t","a","m","p","t","z">>
S_AND == <<" ","A","N","D"," ">>
S_OR == <<" ","O","R"," ">>
S_ANY == <<"A","N","Y"," ","(","'","{","}","'",")">>
S_ALL == <<"A","L","L"," ","(","'","{","}","'",")">>
S_eq == <<"=">>
S_IN == <<"I","N">>
S_NOT_IN == <<"N","O","T"," ","I","N">>
S_IS == <<"I","S">>
S_IS_NOT == <<"I","S"," ","N","O","T">>
S_TRUE == <<"T","R","U","E">>

castTimestamp(value) == IF value.t = "date" THEN S_timestamptz ELSE <<>>

\* buildBetween with the second placeholder at the ordinal of the first
buildBetweenRepeated(condition) ==
  IF condition.value.t \in {"null", "undefined"}
    THEN [condition EXCEPT !.params = condition.value, !.threw = TRUE]
    ELSE [condition EXCEPT
            !.params = condition.value,
            !.value = Str(Placeholder(condition.offset)
                          \o castTimestamp(Index(condition.value, 0))
                          \o S_AND
                          \o Placeholder(condition.offset)
                          \o castTimestamp(Index(condition.value, 1))),
            !.offset = condition.offset + 2]

buildBetween(condition) ==
  IF condition.value.t \in {"null", "undefined"}
    THEN [condition EXCEPT !.params = condition.value, !.threw = TRUE]
    ELSE [condition EXCEPT
            !.params = condition.value,
            !.value = Str(Placeholder(condition.offset)
                          \o castTimestamp(Index(condition.value, 0))
                          \o S_AND
                          \o Placeholder(condition.offset + 1)
                          \o castTimestamp(Index(condition.value, 1))),
            !.offset = condition.offset + 2]

\* buildIn with the ordinals counted from one instead of zero
buildInShifted(condition) ==
  IF Len(condition.value.a) = 0
    THEN [condition EXCEPT
            !.value = Str(IF condition.appended.operator = S_eq
                            THEN S_ANY ELSE S_ALL)]
    ELSE LET inList == [index \in 1..Len(condition.value.a) |->
                          Placeholder(condition.offset + index)
                            \o castTimestamp(condition.value.a[index])]
         IN [condition EXCEPT
               !.appended.operator =
                  IF condition.appended.operator = S_eq THEN S_IN ELSE S_NOT_IN,
               !.params = Arr(Concat(condition.params.a, condition.value)),
               !.offset = condition.offset + Len(condition.value.a),
               !.value = Str(<<"(">> \o JoinWith(inList, <<",">>) \o <<")">>)]

buildIn(condition) ==
  IF Len(condition.value.a) = 0
    THEN [condition EXCEPT
            !.value = Str(IF condition.appended.operator = S_eq
                            THEN S_ANY ELSE S_ALL)]
    ELSE LET inList == [index \in 1..Len(condition.value.a) |->
                          Placeholder(condition.offset + index - 1)
                            \o castTimestamp(condition.value.a[index])]
         IN [condition EXCEPT
               !.appended.operator =
                  IF condition.appended.operator = S_eq THEN S_IN ELSE S_NOT_IN,
               !.params = Arr(Concat(condition.params.a, condition.value)),
               !.offset = condition.offset + Len(condition.value.a),
               !.value = Str(<<"(">> \o JoinWith(inList, <<",">>) \o <<")">>)]

buildIs(condition) ==
  [condition EXCEPT
     !.appended.operator =
        IF condition.appended.operator = S_eq \/ condition.appended.operator = S_IS
          THEN S_IS ELSE S_IS_NOT]

\* equality without the test for null and booleans
equalityUnliteral(condition) ==
  IF condition.value.t = "array"
    THEN buildIn(condition)
  ELSE [condition EXCEPT
          !.params = Arr(Append(condition.params.a, condition.value)),
          !.value = Str(Placeholder(condition.offset)
                        \o castTimestamp(condition.value))]

equality(condition) ==
  IF condition.value.t = "null" \/ condition.value.t = "boolean"
    THEN buildIs(condition)
  ELSE IF condition.value.t = "array"
    THEN buildIn(condition)
  ELSE [condition EXCEPT
          !.params = Arr(Append(condition.params.a, condition.value)),
          !.value = Str(Placeholder(condition.offset)
                        \o castTimestamp(condition.value))]

\* v.search(/[,{}\s\\"]/) !== -1
NeedsQuotes(s) ==
  \E i \in 1..Len(s) : s[i] \in {",", "{", "}", "\\", "\""} \cup Whitespace

\* v.replace(/([\\"])/g, '\\$1')
RECURSIVE EscapeQuotes(_)
EscapeQuotes(s) ==
  IF s = <<>> THEN <<>>
  ELSE (IF Head(s) \in {"\\", "\""} THEN <<"\\", Head(s)>> ELSE <<Head(s)>>)
         \o EscapeQuotes(Tail(s))

\* one element of the array literal, as join(',') prints it
Sanitize(v) ==
  IF v.t = "string" /\ (v.s = <<>> \/ v.s = S_null \/ NeedsQuotes(v.s))
    THEN <<"\"">> \o EscapeQuotes(v.s) \o <<"\"">>
  ELSE IF v.t = "null" THEN S_null
  ELSE IF v.t = "undefined" THEN <<>>
  ELSE ToStr(v)

literalizeArray(condition) ==
  LET pushed ==
        IF condition.value.t = "array"
          THEN Str(<<"{">>
                   \o JoinWith([i \in 1..Len(condition.value.a) |->
                                  Sanitize(condition.value.a[i])], <<",">>)
                   \o <<"}">>)
          ELSE condition.value
  IN [condition EXCEPT
        !.params = Arr(Append(condition.params.a, pushed)),
        !.value = Str(Placeholder(condition.offset)
                      \o castTimestamp(condition.value))]

\* the operator table
map ==
  <<
    [key |-> <<"=">>,
     operator |-> <<"=">>, mutator |-> "equality"],
    [key |-> <<"!">>,
     operator |-> <<"<",">">>, mutator |-> "equality"],
    [key |-> <<">">>,
     operator |-> <<">">>, mutator |-> "none"],
    [key |-> <<"<">>,
     operator |-> <<"<">>, mutator |-> "none"],
    [key |-> <<">","=">>,
     operator |-> <<">","=">>, mutator |-> "none"],
    [key |-> <<"<","=">>,
     operator |-> <<"<","=">>, mutator |-> "none"],
    [key |-> <<"!","=">>,
     operator |-> <<"<",">">>, mutator |-> "equality"],
    [key |-> <<"<",">">>,
     operator |-> <<"<",">">>, mutator |-> "equality"],
    [key |-> <<"b","e","t","w","e","e","n">>,
     operator |-> <<"B","E","T","W","E","E","N">>, mutator |-> "buildBetween"],
    [key |-> <<"@",">">>,
     operator |-> <<"@",">">>, mutator |-> "literalizeArray"],
    [key |-> <<"<","@">>,
     operator |-> <<"<","@">>, mutator |-> "literalizeArray"],
    [key |-> <<"&","&">>,
     operator |-> <<"&","&">>, mutator |-> "literalizeArray"],
    [key |-> <<"?">>,
     operator |-> <<"?">>, mutator |-> "none"],
    [key |-> <<"?","|">>,
     operator |-> <<"?","|">>, mutator |-> "literalizeArray"],
    [key |-> <<"?","&">>,
     operator |-> <<"?","&">>, mutator |-> "literalizeArray"],
    [key |-> <<"@","?">>,
     operator |-> <<"@","?">>, mutator |-> "none"],
    [key |-> <<"@","@">>,
     operator |-> <<"@","@">>, mutator |-> "none"],
    [key |-> <<"~","~">>,
     operator |-> <<"L","I","K","E">>, mutator |-> "none"],
    [key |-> <<"l","i","k","e">>,
     operator |-> <<"L","I","K","E">>, mutator |-> "none"],
    [key |-> <<"!","~","~">>,
     operator |-> <<"N","O","T"," ","L","I","K","E">>, mutator |-> "none"],
    [key |-> <<"n","o","t"," ","l","i","k","e">>,
     operator |-> <<"N","O","T"," ","L","I","K","E">>, mutator |-> "none"],
    [key |-> <<"~","~","*">>,
     operator |-> <<"I","L","I","K","E">>, mutator |-> "none"],
    [key |-> <<"i","l","i","k","e">>,
     operator |-> <<"I","L","I","K","E">>, mutator |-> "none"],
    [key |-> <<"!","~","~","*">>,
     operator |-> <<"N","O","T"," ","I","L","I","K","E">>, mutator |-> "none"],
    [key |-> <<"n","o","t"," ","i","l","i","k","e">>,
     operator |-> <<"N","O","T"," ","I","L","I","K","E">>, mutator |-> "none"],
    [key |-> <<"s","i","m","i","l","a","r"," ","t","o">>,
     operator |-> <<"S","I","M","I","L","A","R"," ","T","O">>, mutator |-> "none"],
    [key |-> <<"n","o","t"," ","s","i","m","i","l","a","r"," ","t","o">>,
     operator |-> <<"N","O","T"," ","S","I","M","I","L","A","R"," ","T","O">>, mutator |-> "none"],
    [key |-> <<"~">>,
     operator |-> <<"~">>, mutator |-> "none"],
    [key |-> <<"!","~">>,
     operator |-> <<"!","~">>, mutator |-> "none"],
    [key |-> <<"~","*">>,
     operator |-> <<"~","*">>, mutator |-> "none"],
    [key |-> <<"!","~","*">>,
     operator |-> <<"!","~","*">>, mutator |-> "none"],
    [key |-> <<"i","s">>,
     operator |-> <<"I","S">>, mutator |-> "buildIs"],
    [key |-> <<"i","s"," ","n","o","t">>,
     operator |-> <<"I","S"," ","N","O","T">>, mutator |-> "buildIs"],
    [key |-> <<"i","s"," ","d","i","s","t","i","n","c","t"," ","f","r","o","m">>,
     operator |-> <<"I","S"," ","D","I","S","T","I","N","C","T"," ","F","R","O","M">>, mutator |-> "none"],
    [key |-> <<"i","s"," ","n","o","t"," ","d","i","s","t","i","n","c","t"," ","f","r","o","m">>,
     operator |-> <<"I","S"," ","N","O","T"," ","D","I","S","T","I","N","C","T"," ","F","R","O","M">>, mutator |-> "none"]
  >>

\* map[key] is undefined
NoOperation == [key |-> UNDEF, operator |-> UNDEF, mutator |-> "undefined"]

\* map[key] itself: what is written to it is written to the i-th entry of
\* the table
Shared(table, i) == [object |-> table[i], at |-> i]

\* _.clone(map[key]): a copy, which is no entry of the table
cloneOf(table, i) == [object |-> table[i], at |-> 0]

\* the lookup of a key in the table as it is now
Lookup(k) ==
  IF \E i \in 1..Len(operations) : operations[i].key = k
    THEN cloneOf(operations,
               CHOOSE i \in 1..Len(operations) : operations[i].key = k)
    ELSE [object |-> NoOperation, at |-> 0]

\* module.exports = key => _.clone(map[key])
ops(k) == Lookup(k).object

\* condition.appended.mutator(condition)
ApplyMutator(condition) ==
  CASE condition.appended.mutator = "equality" -> equality(condition)
    [] condition.appended.mutator = "buildBetween" -> buildBetween(condition)
    [] condition.appended.mutator = "buildIs" -> buildIs(condition)
    [] condition.appended.mutator = "literalizeArray" -> literalizeArray(condition)
    [] OTHER -> condition

(***************************************************************************)
(* util/parse-key.js: withAppendix                                         *)
(***************************************************************************)

\* lines 262-274, given what parseKey returned and what the appendix found
\* for its remainder
Appended(predicate0, value, off, found) ==
  [lhs |-> predicate0.lhs,
   path |-> predicate0.path,
   field |-> predicate0.field,
   remainder |-> predicate0.remainder,
   isJSON |-> predicate0.isJSON,
   offset |-> off,
   value |-> value,
   params |-> Arr(<<>>),
   appended |-> IF found = NoOperation THEN ops(S_eq) ELSE found,
   threw |-> FALSE]

\* withAppendix without the lookup of the remainder
WithParsedAlwaysEqual(predicate0, value, off) ==
  Appended(predicate0, value, off, NoOperation)

\* predicate.remainder && appendix(predicate.remainder)
WithParsed(predicate0, value, off) ==
  Appended(predicate0, value, off,
           IF predicate0.remainder # UNDEF
             THEN ops(predicate0.remainder) ELSE NoOperation)

withAppendix(k, src, value, off) ==
  WithParsed(parseKey(k, src, TRUE), value, off)

(***************************************************************************)
(* readable.js: the predicate compiler                                     *)
(***************************************************************************)

forWhere == "where"
forJoin == "join"
forDoc == "doc"

S_or == <<"o","r">>
S_dollar_or == <<"$","o","r">>
S_and == <<"a","n","d">>
S_dollar_and == <<"$","a","n","d">>

\* util/stringify.js: "JSON predicates expect strings"
stringify(value) ==
  IF value.t = "array"
    THEN Arr([i \in 1..Len(value.a) |-> Str(ToStr(value.a[i]))])
    ELSE Str(ToStr(value))

\* what _.reduce walks: the elements of an array, the values of an object
Members(v) ==
  IF v.t = "array" THEN v.a
  ELSE IF v.t = "object" THEN [i \in 1..Len(v.a) |-> v.a[i].a[1]]
  ELSE <<>>

\* what _.reduce walks with keys: the entries of an object
Entries(v) == IF v.t = "object" THEN v.a ELSE <<>>

Parenthesize(predicates, sep) ==
  <<"(">> \o JoinWith(predicates, sep) \o <<")">>

EmptyJunction(off) ==
  [predicates |-> <<>>, params |-> <<>>, offset |-> off, threw |-> FALSE]

\* lines 328-334
LeafName(k, knd, alias) ==
  IF knd = forDoc THEN <<"b","o","d","y",".">> \o k
  ELSE IF knd = forJoin THEN Interp(alias) \o <<".">> \o k
  ELSE k

\* lines 361-363
Stringified(condition) ==
  IF condition.isJSON /\ Truthy(condition.value)
    THEN [condition EXCEPT !.value = stringify(@)]
    ELSE condition

\* lines 365-370
Mutated(condition) ==
  IF condition.appended.mutator # "none"
    THEN ApplyMutator(condition)
  ELSE IF Truthy(condition.value)
    THEN [condition EXCEPT
            !.params = Arr(Append(@.a, condition.value)),
            !.value = Str(Placeholder(condition.offset))]
  ELSE condition

\* statement/document-predicate.js: the key traverses the body and the value
\* is serialized before the ordinary operator mutators get it
documentPredicate(condition, k) ==
  Mutated([condition EXCEPT !.value = stringify(@)])

\* lines 373-374
PushCondition(conjunction, condition) ==
  IF condition.threw
    THEN [conjunction EXCEPT !.threw = TRUE]
    ELSE [conjunction EXCEPT
            !.predicates = Append(@, condition.lhs \o <<" ">>
                                       \o Interp(condition.appended.operator)
                                       \o <<" ">> \o ToStr(condition.value)),
            !.params = Concat(@, condition.params)]

\* lines 344-371: sourceKey is parseKey(val, this)
Compare(src, conjunction, k, val, knd, condition, sourceKey) ==
  IF knd = forDoc
    THEN PushCondition(conjunction, documentPredicate(condition, k))
  ELSE IF /\ knd = forJoin
          /\ val.t = "string"
          /\ \E i \in 1..Len(src.columns) :
                src.columns[i].fullName = sourceKey.path
          /\ sourceKey.remainder = UNDEF
    THEN [conjunction EXCEPT
            !.predicates = Append(@, condition.lhs \o <<" ","="," ">>
                                       \o sourceKey.lhs)]
  ELSE PushCondition(conjunction, Mutated(Stringified(condition)))

\* lines 328-376: one field comparison
ConjoinLeaf(src, conjunction, k, val, knd, alias) ==
  Compare(src, conjunction, k, val, knd,
          withAppendix(LeafName(k, knd, alias), src, val,
                       conjunction.offset + Len(conjunction.params) + 1),
          parseKey(val.s, src, TRUE))

RECURSIVE conjoin(_, _, _, _, _)
RECURSIVE disjoin(_, _, _, _, _)
RECURSIVE ConjoinReduce(_, _, _, _, _, _)
RECURSIVE DisjoinReduce(_, _, _, _, _, _)
RECURSIVE AndReduce(_, _, _, _, _, _, _)

\* lines 277-280
DisjoinMerge(disjunction, conjunction) ==
  [disjunction EXCEPT
     !.params = @ \o conjunction.params,
     !.predicates = Append(@, Parenthesize(conjunction.predicates, S_AND)),
     !.threw = conjunction.threw]

\* the reducer of disjoin over the members from the i-th on
DisjoinReduce(src, members, i, disjunction, knd, alias) ==
  IF i > Len(members) \/ disjunction.threw THEN disjunction
  ELSE DisjoinReduce(src, members, i + 1,
         DisjoinMerge(disjunction,
                      conjoin(src, members[i],
                              disjunction.offset + Len(disjunction.params),
                              knd, alias)),
         knd, alias)

disjoin(src, crit, off, knd, alias) ==
  DisjoinReduce(src, Members(crit), 1, EmptyJunction(off), knd, alias)

\* lines 304-305
OrMerge(conjunction, disjunction) ==
  [conjunction EXCEPT
     !.params = @ \o disjunction.params,
     !.predicates = Append(@, Parenthesize(disjunction.predicates, S_OR)),
     !.threw = disjunction.threw]

\* lines 317-318: c is the conjunction itself, the subconjunction predicates
\* are tracked apart
AndStep(src, members, i, c, predicates, innerConjunction, knd, alias) ==
  AndReduce(src, members, i + 1,
            [c EXCEPT !.params = @ \o innerConjunction.params,
                      !.threw = innerConjunction.threw],
            Append(predicates, Parenthesize(innerConjunction.predicates, S_AND)),
            knd, alias)

\* the inner reducer of the '$and' branch, and line 323 after it
AndReduce(src, members, i, c, predicates, knd, alias) ==
  IF i > Len(members) \/ c.threw
    THEN [c EXCEPT !.predicates = @ \o <<Parenthesize(predicates, S_AND)>>]
  ELSE AndStep(src, members, i, c, predicates,
               conjoin(src, members[i], c.offset + Len(c.params), knd, alias),
               knd, alias)

\* the reducer with the disjunction compiled at the offset of the conjunction,
\* the parameters gathered so far forgotten
ConjoinEntryStaleOffset(src, conjunction, k, val, knd, alias) ==
  IF k \in {S_dollar_or, S_or}
    THEN OrMerge(conjunction,
                 disjoin(src, val, conjunction.offset, knd, alias))
  ELSE IF k \in {S_dollar_and, S_and}
    THEN AndReduce(src, Members(val), 1, conjunction, <<>>, knd, alias)
  ELSE ConjoinLeaf(src, conjunction, k, val, knd, alias)

\* the reducer of conjoin for one key
ConjoinEntry(src, conjunction, k, val, knd, alias) ==
  IF k \in {S_dollar_or, S_or}
    THEN OrMerge(conjunction,
                 disjoin(src, val, conjunction.offset + Len(conjunction.params),
                         knd, alias))
  ELSE IF k \in {S_dollar_and, S_and}
    THEN AndReduce(src, Members(val), 1, conjunction, <<>>, knd, alias)
  ELSE ConjoinLeaf(src, conjunction, k, val, knd, alias)

\* the reducer of conjoin over the entries from the i-th on
ConjoinReduce(src, entries, i, conjunction, knd, alias) ==
  IF i > Len(entries) \/ conjunction.threw THEN conjunction
  ELSE ConjoinReduce(src, entries, i + 1,
         ConjoinEntry(src, conjunction, entries[i].s, entries[i].a[1],
                      knd, alias),
         knd, alias)

conjoin(src, crit, off, knd, alias) ==
  ConjoinReduce(src, Entries(crit), 1, EmptyJunction(off), knd, alias)

S_conditions == <<"c","o","n","d","i","t","i","o","n","s">>
S_params == <<"p","a","r","a","m","s">>
S_where == <<"w","h","e","r","e">>
S_isDocument == <<"i","s","D","o","c","u","m","e","n","t">>

\* Object.prototype.hasOwnProperty.call(obj, k) and obj[k]
HasOwn(obj, k) == \E i \in 1..Len(obj.a) : obj.a[i].s = k
Get(obj, k) ==
  IF HasOwn(obj, k)
    THEN obj.a[CHOOSE i \in 1..Len(obj.a) : obj.a[i].s = k].a[1]
    ELSE Undefined

\* what a call returns when it throws
Threw ==
  [threw |-> TRUE, predicate |-> <<>>, predicates |-> <<>>, params |-> <<>>]

\* lines 432-436
Assemblage(assembled) ==
  IF assembled.threw THEN Threw
  ELSE [threw |-> FALSE,
        predicate |-> JoinWith(assembled.predicates, S_AND),
        predicates |-> assembled.predicates,
        params |-> assembled.params]

\* lines 420-423
WithSubWhere(conditions, params, subWhere) ==
  IF subWhere.threw THEN Threw
  ELSE [threw |-> FALSE,
        predicate |-> conditions \o S_AND \o subWhere.predicate,
        predicates |-> <<>>,
        params |-> params \o subWhere.params]

\* lines 413-418
InnerKind(crit, knd) ==
  IF HasOwn(crit, S_isDocument)
    THEN IF Truthy(Get(crit, S_isDocument)) THEN forDoc ELSE forWhere
    ELSE knd

RECURSIVE predicate(_, _, _, _, _)

\* predicate without the test for empty criteria
predicateUnguarded(src, crit, off, knd, alias) ==
  IF HasOwn(crit, S_conditions) /\ HasOwn(crit, S_params)
    THEN IF Get(crit, S_where).t = "object" /\ Get(crit, S_where).a # <<>>
           THEN WithSubWhere(ToStr(Get(crit, S_conditions)),
                             Get(crit, S_params).a,
                             predicate(src, Get(crit, S_where),
                                       Len(Get(crit, S_params).a),
                                       InnerKind(crit, knd), UNDEF))
           ELSE [threw |-> FALSE,
                 predicate |-> ToStr(Get(crit, S_conditions)),
                 predicates |-> <<>>,
                 params |-> Get(crit, S_params).a]
  ELSE Assemblage(conjoin(src, crit, off, knd, alias))

\* lines 400-437
predicate(src, crit, off, knd, alias) ==
  IF crit.t = "object" /\ crit.a = <<>>
    THEN [threw |-> FALSE, predicate |-> S_TRUE, predicates |-> <<>>,
          params |-> <<>>]
  ELSE IF HasOwn(crit, S_conditions) /\ HasOwn(crit, S_params)
    THEN IF Get(crit, S_where).t = "object" /\ Get(crit, S_where).a # <<>>
           THEN WithSubWhere(ToStr(Get(crit, S_conditions)),
                             Get(crit, S_params).a,
                             predicate(src, Get(crit, S_where),
                                       Len(Get(crit, S_params).a),
                                       InnerKind(crit, knd), UNDEF))
           ELSE [threw |-> FALSE,
                 predicate |-> ToStr(Get(crit, S_conditions)),
                 predicates |-> <<>>,
                 params |-> Get(crit, S_params).a]
  ELSE Assemblage(conjoin(src, crit, off, knd, alias))

(***************************************************************************)
(* What a compile writes to the operator table: a mutator assigns to       *)
(* condition.appended.operator, and appended is what the lookup returned   *)
(***************************************************************************)

\* parse-key.js lines 268-272: the lookup whose result becomes appended
Found(predicate0) ==
  IF predicate0.remainder # UNDEF
       /\ Lookup(predicate0.remainder).object # NoOperation
    THEN Lookup(predicate0.remainder)
    ELSE Lookup(S_eq)

\* the table after the condition of a leaf went through the mutators, found
\* being the lookup its appended came from
WriteOperator(table, found, condition) ==
  IF found.at = 0 \/ condition.threw THEN table
  ELSE [table EXCEPT ![found.at].operator = condition.appended.operator]

\* readable.js lines 328-371 for one field comparison
WriteLeaf(table, src, k, val, knd, alias) ==
  IF knd = forDoc
    THEN WriteOperator(table,
                       Found(parseKey(LeafName(k, knd, alias), src, TRUE)),
                       documentPredicate(
                         withAppendix(LeafName(k, knd, alias), src, val, 1), k))
  ELSE IF /\ knd = forJoin
          /\ val.t = "string"
          /\ \E i \in 1..Len(src.columns) :
                src.columns[i].fullName = parseKey(val.s, src, TRUE).path
          /\ parseKey(val.s, src, TRUE).remainder = UNDEF
    THEN table
  ELSE WriteOperator(table,
                     Found(parseKey(LeafName(k, knd, alias), src, TRUE)),
                     Mutated(Stringified(
                       withAppendix(LeafName(k, knd, alias), src, val, 1))))

RECURSIVE WrittenEntries(_, _, _, _, _, _)
RECURSIVE WrittenMembers(_, _, _, _, _, _)

\* conjoin: the table after the entries from the i-th on
WrittenEntries(table, src, entries, i, knd, alias) ==
  IF i > Len(entries) THEN table
  ELSE WrittenEntries(
         IF entries[i].s \in {S_dollar_or, S_or, S_dollar_and, S_and}
           THEN WrittenMembers(table, src, Members(entries[i].a[1]), 1,
                               knd, alias)
           ELSE WriteLeaf(table, src, entries[i].s, entries[i].a[1],
                          knd, alias),
         src, entries, i + 1, knd, alias)

\* disjoin and the '$and' branch: the table after the members from the i-th on
WrittenMembers(table, src, members, i, knd, alias) ==
  IF i > Len(members) THEN table
  ELSE WrittenMembers(
         WrittenEntries(table, src, Entries(members[i]), 1, knd, alias),
         src, members, i + 1, knd, alias)

\* the table after predicate(crit, off, knd, alias)
Written(table, src, crit, knd, alias) ==
  IF HasOwn(crit, S_conditions) /\ HasOwn(crit, S_params)
    THEN IF Get(crit, S_where).t = "object" /\ Get(crit, S_where).a # <<>>
           THEN WrittenEntries(table, src, Entries(Get(crit, S_where)), 1,
                               InnerKind(crit, knd), UNDEF)
           ELSE table
  ELSE WrittenEntries(table, src, Entries(crit), 1, knd, alias)

(***************************************************************************)
(* statement/statement.js                                                  *)
(***************************************************************************)

isPkSearch(src, crit) ==
  IF src.pk = <<>> THEN FALSE
  ELSE \A i \in 1..Len(Entries(crit)) :
         \E p \in 1..Len(src.pk) :
           src.pk[p] = parseKey(crit.a[i].s, src, TRUE).field

\* the literal parameters of the ON clauses of a compound Readable
RECURSIVE JoinParams(_)
JoinParams(joins) ==
  IF joins = <<>> THEN <<>>
  ELSE Head(joins).on.params \o JoinParams(Tail(joins))

\* a statement not constructed yet
NoStatement ==
  [threw |-> FALSE, type |-> "none", only |-> FALSE, single |-> FALSE,
   document |-> FALSE, returning |-> <<>>, criteria |-> Null,
   predicate |-> <<>>, params |-> <<>>, changes |-> <<>>, selectList |-> <<>>,
   distinct |-> FALSE, order |-> <<>>, offset |-> Undefined,
   limit |-> Undefined, pageLength |-> Undefined, lock |-> Undefined,
   pagination |-> UNDEF, records |-> <<>>, columns |-> <<>>,
   junctions |-> UNDEF, onConflict |-> Undefined]

\* the Statement constructor; options is [only, single, document], the
\* options build, decompose, stream and fields being absent
Statement(type, src, options, returns) ==
  [NoStatement EXCEPT
     !.type = type,
     !.only = options.only,
     !.single = options.single,
     !.document = options.document,
     !.returning = << <<"*">> >>]

\* lines 97-98
SetPredicate(this, thisCriteria, thisSingle, prep, compiled) ==
  IF compiled.threw THEN [this EXCEPT !.threw = TRUE]
  ELSE [this EXCEPT
          !.criteria = thisCriteria,
          !.single = thisSingle,
          !.predicate = compiled.predicate,
          !.params = IF Len(prep) > 0 THEN prep \o compiled.params
                     ELSE compiled.params]

\* lines 87-98, with the criteria and the prepended parameters settled
Compile(this, src, crit, thisCriteria, thisSingle, prep) ==
  SetPredicate(this, thisCriteria, thisSingle, prep,
               predicate(src, thisCriteria, Len(prep),
                         IF /\ this.document
                            /\ crit.t = "object"
                            /\ ~isPkSearch(src, crit)
                           THEN forDoc ELSE forWhere,
                         UNDEF))

\* Statement.prototype.setCriteria on the statement this
setCriteria(this, src, crit, prep) ==
  IF ~Truthy(crit) THEN [this EXCEPT !.threw = TRUE]
  ELSE IF crit.t # "object" /\ src.pk = <<>>
    THEN [this EXCEPT !.threw = TRUE]
  ELSE Compile(this, src, crit,
               IF crit.t # "object" THEN Obj(<<Ent(src.pk[1], crit)>>) ELSE crit,
               IF crit.t # "object" /\ src.loader # "join"
                 THEN TRUE ELSE this.single,
               IF src.loader = "join" THEN prep \o JoinParams(src.joins)
               ELSE prep)

(***************************************************************************)
(* statement/select.js: buildOrderExpression                               *)
(***************************************************************************)

\* lines 163-169, given the field expression
OrderText(orderObj, field) ==
  IF orderObj.type # UNDEF
    THEN [threw |-> FALSE,
          text |-> <<"(">> \o field \o <<")",":",":">> \o orderObj.type]
    ELSE [threw |-> FALSE, text |-> field]

\* orderObj is [field, expr, type], each a string or UNDEF
buildOrderExpression(src, orderObj, useBody) ==
  IF orderObj.expr = UNDEF /\ ~useBody /\ orderObj.field = UNDEF
    THEN [threw |-> TRUE, text |-> <<>>]
  ELSE OrderText(orderObj,
         IF orderObj.expr # UNDEF THEN orderObj.expr
         ELSE IF useBody
           THEN <<"\"","b","o","d","y","\"">>
                  \o (IF orderObj.type # UNDEF THEN S_arrowText ELSE S_arrow)
                  \o <<"'">> \o Interp(orderObj.field) \o <<"'">>
         ELSE parseKey(orderObj.field, src, orderObj.type # UNDEF).lhs)

(***************************************************************************)
(* readable.js: Readables and compound Readables                           *)
(***************************************************************************)

\* Entity: "name" in the current schema, "schema"."name" elsewhere
delimitedFullName(schema, name, currentSchema) ==
  IF schema = UNDEF \/ schema = currentSchema THEN quote(name)
  ELSE quote(schema) \o <<".">> \o quote(name)

\* the Readable constructor: a table or view of the catalog
Readable(schema, name, currentSchema, columnNames, pk) ==
  [loader |-> "tables",
   name |-> name,
   schema |-> schema,
   currentSchema |-> currentSchema,
   delimitedFullName |-> delimitedFullName(schema, name, currentSchema),
   pk |-> pk,
   columnNames |-> columnNames,
   columns |-> [i \in 1..Len(columnNames) |->
                  [name |-> columnNames[i],
                   fullName |-> delimitedFullName(schema, name, currentSchema)
                                  \o <<".">> \o quote(columnNames[i]),
                   alias |-> UNDEF]],
   joins |-> <<>>]

\* Readable.prototype.aliasField
aliasField(this, field) ==
  IF this.schema = this.currentSchema
    THEN this.name \o <<"_","_">> \o field
    ELSE this.schema \o <<"_","_">> \o this.name \o <<"_","_">> \o field

\* lines 666-670: the columns of the origin, aliased
OriginColumns(this) ==
  [i \in 1..Len(this.columns) |->
     [this.columns[i] EXCEPT !.alias = aliasField(this, this.columns[i].name)]]

\* the columns a join node adds to joinColumns (lines 646-654)
RECURSIVE JoinColumns(_)
JoinColumns(nodes) ==
  IF nodes = <<>> THEN <<>>
  ELSE [i \in 1..Len(Head(nodes).columnNames) |->
          [name |-> Head(nodes).columnNames[i],
           fullName |-> quote(Head(nodes).alias) \o <<".">>
                          \o quote(Head(nodes).columnNames[i]),
           alias |-> Head(nodes).alias \o <<"_","_">>
                       \o Head(nodes).columnNames[i]]]
       \o JoinColumns(Tail(nodes))

\* lines 716-733 for one node, given its compiled ON clause
JoinNode(node, delimitedAlias, full, on) ==
  [alias |-> node.alias,
   relation |-> node.relation,
   schema |-> node.schema,
   type |-> node.type,
   target |-> IF delimitedAlias = full THEN delimitedAlias
              ELSE full \o <<" ","A","S"," ">> \o delimitedAlias,
   on |-> on]

\* joinRelations.map (lines 716-733): the ON clause of each node, compiled
\* against the clone with the offset running over the nodes
RECURSIVE CompileJoins(_, _, _, _)
RECURSIVE CompileRest(_, _, _, _, _)
CompileRest(clone, nodes, i, off, joined) ==
  <<joined>> \o CompileJoins(clone, nodes, i + 1, off + Len(joined.on.params))

CompileJoins(clone, nodes, i, off) ==
  IF i > Len(nodes) THEN <<>>
  ELSE CompileRest(clone, nodes, i, off,
         JoinNode(nodes[i], quote(nodes[i].alias),
                  delimitedFullName(nodes[i].schema, nodes[i].relation,
                                    clone.currentSchema),
                  predicate(clone, nodes[i].on, off, forJoin, nodes[i].alias)))

\* line 735: the compiled joins are stored on the clone
WithJoins(clone, nodes) ==
  [clone EXCEPT !.joins = CompileJoins(clone, nodes, 1, 0)]

\* the compound Readable join() returns for an origin and its join nodes in
\* pre-order: the Proxy answers loader, joins and columns itself
Compound(origin, nodes) ==
  WithJoins([origin EXCEPT !.loader = "join",
                            !.joins = nodes,
                            !.columns = OriginColumns(origin) \o JoinColumns(nodes)],
            nodes)

(***************************************************************************)
(* readable.js: findCandidateJoinKeys and join                             *)
(***************************************************************************)

S_relation == <<"r","e","l","a","t","i","o","n">>
S_on == <<"o","n">>
S_pk == <<"p","k">>
S_omit == <<"o","m","i","t">>
S_type == <<"t","y","p","e">>
S_schema == <<"s","c","h","e","m","a">>
S_decomposeTo == <<"d","e","c","o","m","p","o","s","e","T","o">>
S_parentReadable ==
  <<"p","a","r","e","n","t","R","e","a","d","a","b","l","e">>
S_parentAlias == <<"p","a","r","e","n","t","A","l","i","a","s">>
S_INNER == <<"I","N","N","E","R">>

\* a foreign key as loader/tables.js decomposes it: the table it is loaded
\* with is the dependent one, origin_* is the table it references
Fk(fk, dependent_columns, origin_schema, origin_name, origin_columns) ==
  [fk |-> fk, dependent_columns |-> dependent_columns,
   origin_schema |-> origin_schema, origin_name |-> origin_name,
   origin_columns |-> origin_columns]

\* a table or view as the database holds it: the Readable with its foreign
\* keys
Entity(readable, fks) ==
  [f \in DOMAIN readable \cup {"fks"} |->
     IF f = "fks" THEN fks ELSE readable[f]]

\* entity.path: the name, qualified unless in the current schema
entityPath(this) ==
  IF this.schema = this.currentSchema THEN this.name
  ELSE this.schema \o <<".">> \o this.name

\* a Readable held as a property value (v.parentReadable)
ReadableRef(readable) == Val("readable", 0, entityPath(readable), <<>>)

\* obj[k] = v: an own property keeps its place, a new one goes last
Put(entries, k, v) ==
  IF \E i \in 1..Len(entries) : entries[i].s = k
    THEN [i \in 1..Len(entries) |->
            IF entries[i].s = k THEN Ent(k, v) ELSE entries[i]]
    ELSE Append(entries, Ent(k, v))

\* delete obj[k]
Without(obj, k) ==
  IF obj.t = "object"
    THEN Obj(SelectSeq(obj.a, LAMBDA e : e.s # k))
    ELSE obj

\* _.castArray of a pk option: the column names
castArray(v) ==
  IF v.t = "array" THEN [i \in 1..Len(v.a) |-> ToStr(v.a[i])]
  ELSE <<ToStr(v)>>

\* lines 456-466: the column pairs of one foreign key, if the key's origin is
\* this readable or the parent
FkColumns(this, parentReadable, fk) ==
  IF fk.origin_schema = this.schema /\ fk.origin_name = this.name
    THEN [hit |-> TRUE, left |-> fk.origin_columns,
          right |-> fk.dependent_columns]
  ELSE IF fk.origin_schema = parentReadable.schema
            /\ fk.origin_name = parentReadable.name
    THEN [hit |-> TRUE, left |-> fk.dependent_columns,
          right |-> fk.origin_columns]
  ELSE [hit |-> FALSE, left |-> <<>>, right |-> <<>>]

\* _.zipObject(leftColumns, rightColumns.map(c => `${parentAlias}.${c}`))
zipObject(left, right, parentAlias) ==
  Obj([i \in 1..Len(left) |->
         Ent(left[i],
             IF i <= Len(right)
               THEN Str(parentAlias \o <<".">> \o right[i])
               ELSE Undefined)])

\* the reduce of lines 454-475 from the i-th foreign key on
RECURSIVE CandidateJoinKeys(_, _, _, _, _, _)
CandidateJoinKeys(this, parentReadable, parentAlias, fks, i, allJoinPredicates) ==
  IF i > Len(fks) THEN allJoinPredicates
  ELSE CandidateJoinKeys(this, parentReadable, parentAlias, fks, i + 1,
         IF FkColumns(this, parentReadable, fks[i]).hit
           THEN Put(allJoinPredicates, fks[i].fk,
                    zipObject(FkColumns(this, parentReadable, fks[i]).left,
                              FkColumns(this, parentReadable, fks[i]).right,
                              parentAlias))
           ELSE allJoinPredicates)

\* Readable.prototype.findCandidateJoinKeys: the [fk name, on] pairs
findCandidateJoinKeys(this, parentReadable, parentAlias) ==
  CandidateJoinKeys(this, parentReadable, parentAlias,
                    this.fks \o parentReadable.fks, 1, <<>>)

\* _.get(this.db, _.compact([schema, relation]))
DbPath(schema, relation) ==
  (IF schema = UNDEF THEN <<>> ELSE <<schema>>)
    \o (IF relation = UNDEF THEN <<>> ELSE <<relation>>)

DbHas(db, schema, relation) ==
  \E i \in 1..Len(db) : db[i].path = DbPath(schema, relation)

DbGet(db, schema, relation) ==
  db[CHOOSE i \in 1..Len(db) : db[i].path = DbPath(schema, relation)].entity

\* lines 504-519: what the reducer closes over, and its first accumulator
JoinStart(this, primaryPk) ==
  [threw |-> FALSE,
   seenAliases |-> <<this.name>>,
   decompositionSchema |->
     <<[at |-> <<>>,
        pk |-> [i \in 1..Len(primaryPk) |-> aliasField(this, primaryPk[i])],
        decomposeTo |-> Undefined,
        columns |-> [i \in 1..Len(this.columns) |->
                       <<aliasField(this, this.columns[i].name),
                         this.columns[i].name>>]]>>,
   schemaNodeParent |-> <<>>,
   marked |-> <<>>,
   joinRelations |-> <<>>,
   joinColumns |-> OriginColumns(this)]

\* what a throw inside the reducer leaves
Thrown(c) == [c EXCEPT !.threw = TRUE]

\* lines 566-584: the schema node of a node that is not omitted, hung under
\* schemaNodeParent, which then points at it
WithSchemaNode(c, val, alias, readable) ==
  IF Truthy(Get(val, S_omit)) THEN c
  ELSE [c EXCEPT
          !.decompositionSchema =
             Append(@, [at |-> Append(c.schemaNodeParent, alias),
                        pk |-> [i \in 1..Len(IF Truthy(Get(val, S_pk))
                                               THEN castArray(Get(val, S_pk))
                                               ELSE readable.pk) |->
                                  alias \o <<"_","_">>
                                    \o (IF Truthy(Get(val, S_pk))
                                          THEN castArray(Get(val, S_pk))
                                          ELSE readable.pk)[i]],
                        decomposeTo |-> Get(val, S_decomposeTo),
                        columns |-> [i \in 1..Len(readable.columns) |->
                                       <<alias \o <<"_","_">>
                                           \o readable.columns[i].name,
                                         readable.columns[i].name>>]]),
          !.schemaNodeParent = Append(@, alias)]

\* lines 586-598: the ON criteria of a node
OnOf(val, candidateFks) ==
  IF Truthy(Get(val, S_on)) THEN [threw |-> FALSE, on |-> Get(val, S_on)]
  ELSE IF Len(candidateFks) = 1
    THEN [threw |-> FALSE, on |-> candidateFks[1].a[1]]
  ELSE [threw |-> TRUE, on |-> Undefined]

\* the properties of a node that are not child nodes (lines 602-611)
NodeProperties ==
  {S_type, S_on, S_schema, S_relation, S_pk, S_omit, S_parentReadable,
   S_parentAlias, S_decomposeTo}

\* lines 617-618: the child node v, found at `at` in the caller's definition,
\* is given its parent
Marked(c, at, readable, alias) ==
  [c EXCEPT !.marked = Append(@, [at |-> at,
                                  parentReadable |-> ReadableRef(readable),
                                  parentAlias |-> Str(alias)])]

\* the node the reducer adds to joinRelations (lines 621-630)
Standardized(val, schema, relation, alias, readable, on) ==
  [alias |-> alias, schema |-> schema, relation |-> relation,
   type |-> IF Truthy(Get(val, S_type)) THEN ToStr(Get(val, S_type))
            ELSE S_INNER,
   columnNames |-> readable.columnNames, on |-> on]

\* lines 633-657 without the restore
AccumulatedUnrestored(outer, node, below) ==
  IF below.threw THEN below
  ELSE [below EXCEPT
          !.joinRelations = outer.joinRelations \o <<node>> \o below.joinRelations,
          !.joinColumns = outer.joinColumns \o JoinColumns(<<node>>)
                            \o below.joinColumns]

\* lines 633-657 with the node and its columns added after its descendants'
AccumulatedPostOrder(outer, node, below) ==
  IF below.threw THEN below
  ELSE [below EXCEPT
          !.schemaNodeParent = outer.schemaNodeParent,
          !.joinRelations = outer.joinRelations \o below.joinRelations \o <<node>>,
          !.joinColumns = outer.joinColumns \o below.joinColumns
                            \o JoinColumns(<<node>>)]

\* lines 633-657: the parent schema node pointer is restored, and the node,
\* its columns and then what its descendants added go to the accumulator
Accumulated(outer, node, below) ==
  IF below.threw THEN below
  ELSE [below EXCEPT
          !.schemaNodeParent = outer.schemaNodeParent,
          !.joinRelations = outer.joinRelations \o <<node>> \o below.joinRelations,
          !.joinColumns = outer.joinColumns \o JoinColumns(<<node>>)
                            \o below.joinColumns]

RECURSIVE reducer(_, _, _, _, _, _, _, _)

\* the inner _.reduce(val, ...) of lines 600-631 from the i-th property on: c
\* is the closure state with the accumulator of the node under construction
RECURSIVE Descend(_, _, _, _, _, _, _, _)
Descend(db, this, c, entries, i, readable, alias, at) ==
  IF i > Len(entries) \/ c.threw THEN c
  ELSE IF entries[i].s \in NodeProperties
    THEN Descend(db, this, c, entries, i + 1, readable, alias, at)
  ELSE IF entries[i].a[1].t # "object"
    \* 'use strict': a property cannot be created on a primitive
    THEN Thrown(c)
  ELSE Descend(db, this,
               reducer(db, this,
                       Marked(c, Append(at, entries[i].s), readable, alias),
                       entries[i].a[1], entries[i].s, readable, alias,
                       Append(at, entries[i].s)),
               entries, i + 1, readable, alias, at)

\* lines 563-657, the node being resolved
Reduced(db, this, outer, val, alias, schema, relation, readable, on, at) ==
  IF on.threw THEN Thrown(outer)
  ELSE Accumulated(
         outer,
         Standardized(val, schema, relation, alias, readable, on.on),
         Descend(db, this,
                 [WithSchemaNode(
                    [outer EXCEPT !.seenAliases = Append(@, alias)],
                    val, alias, readable)
                    EXCEPT !.joinRelations = <<>>, !.joinColumns = <<>>],
                 Entries(val), 1, readable, alias, at))

\* lines 539-561 without the test for a repeated alias
CheckedUnseen(db, this, c, val, parentReadable, parentAlias, at, schema, relation, alias) ==
  IF ~DbHas(db, schema, relation) THEN Thrown(c)
  ELSE IF ~Truthy(Get(val, S_pk)) /\ DbGet(db, schema, relation).pk = UNDEF
    THEN Thrown(c)
  ELSE Reduced(db, this, c, val, alias, schema, relation,
               DbGet(db, schema, relation),
               OnOf(val, IF Truthy(Get(val, S_on)) THEN <<>>
                         ELSE findCandidateJoinKeys(
                                DbGet(db, schema, relation),
                                parentReadable, parentAlias)),
               at)

\* lines 539-561: the checks once schema, relation and alias are known
Checked(db, this, c, val, parentReadable, parentAlias, at, schema, relation, alias) ==
  IF ~DbHas(db, schema, relation) THEN Thrown(c)
  ELSE IF \E i \in 1..Len(c.seenAliases) : c.seenAliases[i] = alias
    THEN Thrown(c)
  ELSE IF ~Truthy(Get(val, S_pk)) /\ DbGet(db, schema, relation).pk = UNDEF
    THEN Thrown(c)
  ELSE Reduced(db, this, c, val, alias, schema, relation,
               DbGet(db, schema, relation),
               OnOf(val, IF Truthy(Get(val, S_on)) THEN <<>>
                         ELSE findCandidateJoinKeys(
                                DbGet(db, schema, relation),
                                parentReadable, parentAlias)),
               at)

\* lines 533-537: relation, schema and alias from the lexed tokens
Lexed(db, this, c, val, k, parentReadable, parentAlias, at, tokens) ==
  Checked(db, this, c, val, parentReadable, parentAlias, at,
           IF Len(tokens) > 1 THEN tokens[1] ELSE UNDEF,
           IF tokens = <<>> THEN UNDEF ELSE tokens[Len(tokens)],
           IF Truthy(Get(val, S_relation)) THEN k
           ELSE IF tokens = <<>> THEN UNDEF ELSE tokens[Len(tokens)])

\* reducer(acc, val, key) of lines 532-660, for the node found at `at` in the
\* caller's definition, whose parent is parentReadable under parentAlias
\* (val.parentReadable || this, val.parentAlias || this.delimitedFullName)
reducer(db, this, c, val, k, parentReadable, parentAlias, at) ==
  IF c.threw THEN c
  ELSE Lexed(db, this, c, val, k, parentReadable, parentAlias, at,
             lex(IF Truthy(Get(val, S_relation))
                   THEN ToStr(Get(val, S_relation))
                   ELSE k).tokens)

\* _.reduce(definition, reducer, ...) of line 662 from the i-th property on
RECURSIVE ReduceDefinition(_, _, _, _, _)
ReduceDefinition(db, this, c, entries, i) ==
  IF i > Len(entries) \/ c.threw THEN c
  ELSE ReduceDefinition(db, this,
         reducer(db, this, c, entries[i].a[1], entries[i].s, this,
                 this.delimitedFullName, <<entries[i].s>>),
         entries, i + 1)

\* the caller's definition after the reducer gave the child nodes it reached
\* their parents: obj is the object found at `depth` steps along mark.at
RECURSIVE MarkAt(_, _, _)
MarkAt(obj, mark, depth) ==
  IF depth = Len(mark.at)
    THEN Obj(Put(Put(obj.a, S_parentReadable, mark.parentReadable),
                 S_parentAlias, mark.parentAlias))
    ELSE Obj([i \in 1..Len(obj.a) |->
                IF obj.a[i].s = mark.at[depth + 1]
                  THEN Ent(obj.a[i].s, MarkAt(obj.a[i].a[1], mark, depth + 1))
                  ELSE obj.a[i]])

RECURSIVE WithMarks(_, _, _)
WithMarks(obj, marked, i) ==
  IF i > Len(marked) THEN obj
  ELSE WithMarks(MarkAt(obj, marked[i], 0), marked, i + 1)

\* JSON.stringify of a string
JSONQuote(s) ==
  <<"\"">>
    \o JoinWith([i \in 1..Len(s) |->
                   IF s[i] \in {"\"", "\\"} THEN <<"\\", s[i]>> ELSE <<s[i]>>],
                <<>>)
    \o <<"\"">>

\* JSON.stringify.  A Readable prints as {"path":...} here, which stands for
\* the text its enumerable properties give when they can be serialized.
RECURSIVE JSONStringify(_)
JSONProperties(entries) ==
  [i \in 1..Len(entries) |->
     JSONQuote(entries[i].s) \o <<":">> \o JSONStringify(entries[i].a[1])]

JSONStringify(v) ==
  CASE v.t = "string" -> JSONQuote(v.s)
    [] v.t = "number" -> Digits(v.n)
    [] v.t = "boolean" -> IF v.n = 1 THEN S_true ELSE S_false
    [] v.t = "null" -> S_null
    [] v.t = "date" -> JSONQuote(ToStr(v))
    [] v.t = "array" ->
         <<"[">>
           \o JoinWith([i \in 1..Len(v.a) |->
                          IF v.a[i].t = "undefined" THEN S_null
                          ELSE JSONStringify(v.a[i])], <<",">>)
           \o <<"]">>
    [] v.t = "object" ->
         <<"{">>
           \o JoinWith(JSONProperties(
                         SelectSeq(v.a, LAMBDA e : e.a[1].t # "undefined")),
                       <<",">>)
           \o <<"}">>
    [] v.t = "readable" ->
         <<"{","\"","p","a","t","h","\"",":">> \o JSONQuote(v.s) \o <<"}">>
    [] OTHER -> S_undefined

\* whether a Readable is reachable from the value
RECURSIVE HoldsReadable(_)
HoldsReadable(v) ==
  \/ v.t = "readable"
  \/ \E i \in 1..Len(v.a) : HoldsReadable(v.a[i])

\* line 497: the name the compound is cached under.  murmurhash is taken to
\* tell the texts at hand apart, so the text stands for its hash.
CacheName(this, definition) ==
  entityPath(this) \o <<".">> \o JSONStringify(definition)

CacheHas(cache, name) == \E i \in 1..Len(cache) : cache[i].name = name
CacheGet(cache, name) ==
  cache[CHOOSE i \in 1..Len(cache) : cache[i].name = name].compound

\* what join() returns when it throws
NoCompound ==
  [threw |-> TRUE, hit |-> FALSE, object |-> 0, clone |-> <<>>,
   decompositionSchema |-> <<>>]

\* lines 506-510, 522-524: a string becomes {[definition]: true}, and an
\* explicit root pk leaves the definition that is reduced
Reducible(definition) ==
  IF definition.t = "string"
    THEN Obj(<<Ent(definition.s, Bool(TRUE))>>)
    ELSE Without(definition, S_pk)

\* line 513
primaryPk(this, definition) ==
  IF Truthy(Get(definition, S_pk)) THEN castArray(Get(definition, S_pk))
  ELSE this.pk

\* lines 672-733: the clone with its ON clauses compiled, as the object-th
\* compound made
Cloned(this, c, object) ==
  [threw |-> FALSE, hit |-> FALSE, object |-> object,
   clone |-> WithJoins([this EXCEPT !.loader = "join",
                                    !.joins = c.joinRelations,
                                    !.columns = c.joinColumns],
                       c.joinRelations),
   decompositionSchema |-> c.decompositionSchema]

\* a compiled ON clause threw
OnThrew(compound) ==
  \E i \in 1..Len(compound.clone.joins) : compound.clone.joins[i].on.threw

\* the compound stored in the cache before the ON clauses are compiled and
\* whatever the reducer found
ReturnedStoredFirst(definition, c, cache, name, compound) ==
  [returns |-> IF c.threw \/ OnThrew(compound) THEN NoCompound ELSE compound,
   definition |-> IF definition.t = "string" THEN definition
                  ELSE WithMarks(Without(definition, S_pk), c.marked, 1),
   entityCache |-> Append(cache, [name |-> name, compound |-> compound])]

\* what a call of join leaves: the compound returned, the caller's definition
\* and the cache
Returned(definition, c, cache, name, compound) ==
  IF c.threw \/ OnThrew(compound)
    THEN [returns |-> NoCompound,
          definition |-> IF definition.t = "string" THEN definition
                         ELSE WithMarks(Without(definition, S_pk), c.marked, 1),
          entityCache |-> cache]
    ELSE [returns |-> compound,
          definition |-> IF definition.t = "string" THEN definition
                         ELSE WithMarks(Without(definition, S_pk), c.marked, 1),
          entityCache |-> Append(cache, [name |-> name, compound |-> compound])]

\* lines 662-737, the definition being reduced
Cached(this, definition, c, cache) ==
  Returned(definition, c, cache, CacheName(this, definition),
           Cloned(this, c, Len(cache) + 1))

\* Readable.prototype.join(definition) on this, with the cache as it is;
\* serializable tells whether JSON.stringify can print a Readable it finds in
\* the definition or throws on it
join(db, this, definition, cache, serializable) ==
  IF HoldsReadable(definition) /\ ~serializable
    THEN [returns |-> NoCompound, definition |-> definition,
          entityCache |-> cache]
  ELSE IF CacheHas(cache, CacheName(this, definition))
    THEN [returns |-> [CacheGet(cache, CacheName(this, definition))
                         EXCEPT !.hit = TRUE],
          definition |-> definition,
          entityCache |-> cache]
  ELSE Cached(this, definition,
                 ReduceDefinition(db, this,
                                  JoinStart(this, primaryPk(this, definition)),
                                  Entries(Reducible(definition)), 1),
                 cache)

(***************************************************************************)
(* statement/select.js, statement/update.js, statement/delete.js           *)
(***************************************************************************)

S_WHERE == <<"W","H","E","R","E"," ">>
S_RETURNING == <<"R","E","T","U","R","N","I","N","G"," ">>
S_ONLY == <<"O","N","L","Y"," ">>
S_set == <<"$","s","e","t">>

\* buildSelectList(undefined, undefined): nothing specified, select all
buildSelectList(this, src) ==
  IF src.loader = "join"
    THEN [i \in 1..Len(src.columns) |->
            src.columns[i].fullName \o <<" ","A","S"," ","\"">>
              \o Interp(src.columns[i].alias) \o <<"\"">>]
    ELSE << <<"*">> >>

S_only == <<"o","n","l","y">>
S_single == <<"s","i","n","g","l","e">>
S_document == <<"d","o","c","u","m","e","n","t">>
S_distinct == <<"d","i","s","t","i","n","c","t">>
S_order == <<"o","r","d","e","r">>
S_orderBody == <<"o","r","d","e","r","B","o","d","y">>
S_offset == <<"o","f","f","s","e","t">>
S_limit == <<"l","i","m","i","t">>
S_pageLength == <<"p","a","g","e","L","e","n","g","t","h">>
S_lock == <<"l","o","c","k">>
S_forUpdate == <<"f","o","r","U","p","d","a","t","e">>
S_forShare == <<"f","o","r","S","h","a","r","e">>
S_strength == <<"s","t","r","e","n","g","t","h">>
S_lockedRows == <<"l","o","c","k","e","d","R","o","w","s">>
S_field == <<"f","i","e","l","d">>
S_expr == <<"e","x","p","r">>
S_direction == <<"d","i","r","e","c","t","i","o","n">>
S_nulls == <<"n","u","l","l","s">>
S_last == <<"l","a","s","t">>
S_desc == <<"d","e","s","c">>
S_first == <<"f","i","r","s","t">>
S_UPDATE == <<"U","P","D","A","T","E">>
S_SHARE == <<"S","H","A","R","E">>

\* the options the Statement constructor reads, of an options object
StatementOptions(options) ==
  [only |-> Truthy(Get(options, S_only)),
   single |-> Truthy(Get(options, S_single)),
   document |-> Truthy(Get(options, S_document))]

\* a string property that is tested for truth before it is used
Text(v) == IF Truthy(v) THEN ToStr(v) ELSE UNDEF

\* the order entry as buildOrderExpression reads it
OrderObj(val) ==
  [field |-> Text(Get(val, S_field)), expr |-> Text(Get(val, S_expr)),
   type |-> Text(Get(val, S_type))]

\* val.direction && val.direction.toLowerCase() === 'desc'
IsDesc(val) ==
  /\ Truthy(Get(val, S_direction))
  /\ ToLowerCase(ToStr(Get(val, S_direction))) = S_desc

\* lines 25-27: direction and nulls of an order entry
Direction(val) ==
  IF IsDesc(val) THEN <<" ","D","E","S","C">> ELSE <<" ","A","S","C">>

Nulls(val) ==
  IF ~Truthy(Get(val, S_nulls)) THEN <<>>
  ELSE IF Get(val, S_nulls) = Str(S_first)
    THEN <<" ","N","U","L","L","S"," ","F","I","R","S","T">>
  ELSE <<" ","N","U","L","L","S"," ","L","A","S","T">>

\* lines 24-31: this.order, the entries that threw marked
OrderList(src, options) ==
  [i \in 1..Len(Members(Get(options, S_order))) |->
     [threw |-> buildOrderExpression(
                  src, OrderObj(Members(Get(options, S_order))[i]),
                  Truthy(Get(options, S_orderBody))).threw,
      text |-> buildOrderExpression(
                 src, OrderObj(Members(Get(options, S_order))[i]),
                 Truthy(Get(options, S_orderBody))).text
                 \o Direction(Members(Get(options, S_order))[i])
                 \o Nulls(Members(Get(options, S_order))[i])]]

\* parseLock without the test of lines 183-185
parseLockUnchecked(options) ==
  IF Truthy(Get(options, S_forUpdate))
    THEN [threw |-> FALSE, lock |-> Obj(<<Ent(S_strength, Str(S_UPDATE))>>)]
  ELSE IF Truthy(Get(options, S_forShare))
    THEN [threw |-> FALSE, lock |-> Obj(<<Ent(S_strength, Str(S_SHARE))>>)]
  ELSE [threw |-> FALSE, lock |-> Get(options, S_lock)]

\* Select.prototype.parseLock
parseLock(options) ==
  IF Cardinality({k \in {S_forShare, S_forUpdate, S_lock} :
                    Get(options, k).t \notin {"null", "undefined"}}) > 1
    THEN [threw |-> TRUE, lock |-> Undefined]
  ELSE IF Truthy(Get(options, S_forUpdate))
    THEN [threw |-> FALSE, lock |-> Obj(<<Ent(S_strength, Str(S_UPDATE))>>)]
  ELSE IF Truthy(Get(options, S_forShare))
    THEN [threw |-> FALSE, lock |-> Obj(<<Ent(S_strength, Str(S_SHARE))>>)]
  ELSE [threw |-> FALSE, lock |-> Get(options, S_lock)]

\* lines 22-35 of the Select constructor, the options fields and exprs being
\* absent
SelectOptions(this, src, options) ==
  IF this.threw THEN this
  ELSE IF \E i \in 1..Len(OrderList(src, options)) :
            OrderList(src, options)[i].threw
    THEN [this EXCEPT !.threw = TRUE]
  ELSE IF parseLock(options).threw THEN [this EXCEPT !.threw = TRUE]
  ELSE [this EXCEPT
          !.distinct = Truthy(Get(options, S_distinct)),
          !.selectList = buildSelectList(this, src),
          !.order = [i \in 1..Len(OrderList(src, options)) |->
                       OrderList(src, options)[i].text],
          !.offset = Get(options, S_offset),
          !.limit = Get(options, S_limit),
          !.pageLength = Get(options, S_pageLength),
          !.lock = parseLock(options).lock]

\* line 48: the order expressions of the pagination predicate
PaginationColumns(src, order) ==
  [i \in 1..Len(order) |-> buildOrderExpression(src, OrderObj(order[i]), FALSE)]

\* lines 47-54 with the placeholders numbered from the first parameter
PaginatedFromOne(this, src, order, comparison) ==
  IF \E i \in 1..Len(order) : PaginationColumns(src, order)[i].threw
    THEN [this EXCEPT !.threw = TRUE]
  ELSE [this EXCEPT
          !.params = @ \o [i \in 1..Len(order) |-> Get(order[i], S_last)],
          !.pagination =
             <<"(">>
               \o JoinWith([i \in 1..Len(order) |->
                              PaginationColumns(src, order)[i].text], <<",">>)
               \o <<")"," ">> \o comparison \o <<" ","(">>
               \o JoinWith([i \in 1..Len(order) |-> Placeholder(i)], <<",">>)
               \o <<")">>]

\* lines 47-54: the pagination predicate and its parameters
Paginated(this, src, order, comparison) ==
  IF \E i \in 1..Len(order) : PaginationColumns(src, order)[i].threw
    THEN [this EXCEPT !.threw = TRUE]
  ELSE [this EXCEPT
          !.params = @ \o [i \in 1..Len(order) |-> Get(order[i], S_last)],
          !.pagination =
             <<"(">>
               \o JoinWith([i \in 1..Len(order) |->
                              PaginationColumns(src, order)[i].text], <<",">>)
               \o <<")"," ">> \o comparison \o <<" ","(">>
               \o JoinWith([i \in 1..Len(order) |->
                              Placeholder(i - 1 + Len(this.params) + 1)],
                           <<",">>)
               \o <<")">>]

\* lines 39-55 without the tests of lines 40-46
PaginationUnchecked(this, src, options) ==
  IF this.threw \/ ~Truthy(this.pageLength) THEN this
  ELSE IF Members(Get(options, S_order)) = <<>> THEN this
  ELSE IF HasOwn(Members(Get(options, S_order))[1], S_last)
    THEN Paginated(this, src, Members(Get(options, S_order)),
                   IF IsDesc(Members(Get(options, S_order))[1])
                     THEN <<"<">> ELSE <<">">>)
  ELSE this

\* lines 39-55 of the Select constructor: keyset pagination
Pagination(this, src, options) ==
  IF this.threw \/ ~Truthy(this.pageLength) THEN this
  ELSE IF ~Truthy(Get(options, S_order)) THEN [this EXCEPT !.threw = TRUE]
  ELSE IF HasOwn(options, S_offset) \/ HasOwn(options, S_limit)
    THEN [this EXCEPT !.threw = TRUE]
  ELSE IF Members(Get(options, S_order)) = <<>>
    \* hasOwnProperty.call(undefined, 'last')
    THEN [this EXCEPT !.threw = TRUE]
  ELSE IF HasOwn(Members(Get(options, S_order))[1], S_last)
    THEN Paginated(this, src, Members(Get(options, S_order)),
                   IF IsDesc(Members(Get(options, S_order))[1])
                     THEN <<"<">> ELSE <<">">>)
  ELSE this

\* new Select(source, criteria, options)
Select(src, crit, options) ==
  Pagination(
    SelectOptions(setCriteria(Statement("Select", src,
                                        StatementOptions(options), FALSE),
                              src, crit, <<>>),
                  src, options),
    src, options)

\* `${j.type} JOIN ${j.target} ON ${on} ` of the joins from the i-th on
RECURSIVE JoinClauses(_, _, _)
JoinClauses(joins, i, usePredicates) ==
  IF i > Len(joins) THEN <<>>
  ELSE joins[i].type \o <<" ","J","O","I","N"," ">> \o joins[i].target
         \o <<" ","O","N"," ">>
         \o (IF usePredicates
               THEN (IF joins[i].on.predicates = UNDEF THEN S_undefined
                     ELSE JoinWith(joins[i].on.predicates, <<",">>))
               ELSE joins[i].on.predicate)
         \o <<" ">>
         \o JoinClauses(joins, i + 1, usePredicates)

\* lines 227-238 with the row limit ahead of the ORDER BY clause
SelectTailLimitFirst(this) ==
  (IF this.pagination # UNDEF THEN S_AND \o this.pagination ELSE <<>>)
    \o (IF this.single THEN <<" ","L","I","M","I","T"," ","1">>
        ELSE IF Truthy(this.limit)
          THEN <<" ","L","I","M","I","T"," ">> \o ToStr(this.limit)
        ELSE <<>>)
    \o (IF Len(this.order) > 0
          THEN <<" ","O","R","D","E","R"," ","B","Y"," ">>
                 \o JoinWith(this.order, <<",">>)
          ELSE <<>>)
    \o (IF Truthy(this.lock)
          THEN <<" ","F","O","R"," ">> \o ToStr(Get(this.lock, S_strength))
          ELSE <<>>)
    \o (IF Truthy(this.lock) /\ Truthy(Get(this.lock, S_lockedRows))
          THEN <<" ">> \o ToStr(Get(this.lock, S_lockedRows))
          ELSE <<>>)
    \o (IF Truthy(this.pageLength)
          THEN <<" ","F","E","T","C","H"," ","F","I","R","S","T"," ">>
                 \o ToStr(this.pageLength)
                 \o <<" ","R","O","W","S"," ","O","N","L","Y">>
          ELSE <<>>)
    \o (IF Truthy(this.offset)
          THEN <<" ","O","F","F","S","E","T"," ">> \o ToStr(this.offset)
          ELSE <<>>)

\* lines 227-238: what follows the predicate
SelectTail(this) ==
  (IF this.pagination # UNDEF THEN S_AND \o this.pagination ELSE <<>>)
    \o (IF Len(this.order) > 0
          THEN <<" ","O","R","D","E","R"," ","B","Y"," ">>
                 \o JoinWith(this.order, <<",">>)
          ELSE <<>>)
    \o (IF Truthy(this.lock)
          THEN <<" ","F","O","R"," ">> \o ToStr(Get(this.lock, S_strength))
          ELSE <<>>)
    \o (IF Truthy(this.lock) /\ Truthy(Get(this.lock, S_lockedRows))
          THEN <<" ">> \o ToStr(Get(this.lock, S_lockedRows))
          ELSE <<>>)
    \o (IF Truthy(this.pageLength)
          THEN <<" ","F","E","T","C","H"," ","F","I","R","S","T"," ">>
                 \o ToStr(this.pageLength)
                 \o <<" ","R","O","W","S"," ","O","N","L","Y">>
          ELSE <<>>)
    \o (IF Truthy(this.offset)
          THEN <<" ","O","F","F","S","E","T"," ">> \o ToStr(this.offset)
          ELSE <<>>)
    \o (IF this.single THEN <<" ","L","I","M","I","T"," ","1">>
        ELSE IF Truthy(this.limit)
          THEN <<" ","L","I","M","I","T"," ">> \o ToStr(this.limit)
        ELSE <<>>)

\* Select.prototype.format
SelectFormat(this, src) ==
  [this |-> this,
   sql |-> <<"S","E","L","E","C","T"," ">>
             \o (IF this.distinct
                   THEN <<"D","I","S","T","I","N","C","T"," ">> ELSE <<>>)
             \o JoinWith(this.selectList, <<",">>)
             \o <<" ","F","R","O","M"," ">>
             \o (IF this.only THEN S_ONLY ELSE <<>>)
             \o src.delimitedFullName \o <<" ">>
             \o (IF src.loader = "join" THEN JoinClauses(src.joins, 1, FALSE)
                  ELSE <<>>)
             \o S_WHERE \o this.predicate
             \o SelectTail(this)]

\* _.pick(changes, [...source.columnNames, '$set']): the picked entries in the
\* order of the names
RECURSIVE Pick(_, _)
Pick(obj, names) ==
  IF names = <<>> THEN <<>>
  ELSE (IF HasOwn(obj, Head(names))
          THEN <<Ent(Head(names), Get(obj, Head(names)))>> ELSE <<>>)
       \o Pick(obj, Tail(names))

\* the assignments of the $set map without the test of line 26
SetAssignmentsUnchecked(picked, setMap) ==
  [threw |-> FALSE,
   changes |-> [i \in 1..Len(setMap.a) |->
                  quote(setMap.a[i].s) \o <<" ","="," ">>
                    \o ToStr(setMap.a[i].a[1])]]

\* lines 25-31: the assignments of the $set map; threw when a key is also a
\* key of the picked changes
SetAssignments(picked, setMap) ==
  [threw |-> \E i \in 1..Len(setMap.a) :
               \E j \in 1..Len(picked) : picked[j].s = setMap.a[i].s,
   changes |-> [i \in 1..Len(setMap.a) |->
                  quote(setMap.a[i].s) \o <<" ","="," ">>
                    \o ToStr(setMap.a[i].a[1])]]

\* lines 23-37: the reducer over the picked changes from the i-th on; acc
\* is [threw, changes, offset].  A $set value is a plain object or a scalar.
RECURSIVE Assignments(_, _, _)
AssignSet(picked, i, acc, assigned) ==
  IF assigned.threw THEN [acc EXCEPT !.threw = TRUE]
  ELSE Assignments(picked, i + 1,
                   [acc EXCEPT !.changes = @ \o assigned.changes])

Assignments(picked, i, acc) ==
  IF i > Len(picked) THEN acc
  ELSE IF picked[i].s = S_set /\ picked[i].a[1].t = "object"
    THEN AssignSet(picked, i, acc, SetAssignments(picked, picked[i].a[1]))
  ELSE Assignments(picked, i + 1,
         [acc EXCEPT
            !.changes = Append(@, quote(picked[i].s) \o <<" ","="," ">>
                                    \o Placeholder(acc.offset + 1)),
            !.offset = @ + 1])

\* util/prepare-params.js: the value of each key of the record, in key order
prepareParams(picked) == [i \in 1..Len(picked) |-> picked[i].a[1]]

\* lines 19-39, given the picked changes and their assignments
UpdateChanges(this, src, crit, picked, assigned) ==
  IF assigned.threw THEN [this EXCEPT !.threw = TRUE]
  ELSE setCriteria([this EXCEPT !.changes = assigned.changes], src, crit,
                   prepareParams(picked))

UpdatePicked(this, src, crit, picked) ==
  UpdateChanges(this, src, crit, picked,
                Assignments(picked, 1,
                            [threw |-> FALSE, changes |-> <<>>, offset |-> 0]))

\* new Update(source, changes, criteria, options)
Update(src, chg, crit, options) ==
  UpdatePicked(Statement("Update", src, options, TRUE), src, crit,
               Pick(chg, Append(src.columnNames, S_set)))

\* new Delete(source, criteria, options)
Delete(src, crit, options) ==
  setCriteria(Statement("Delete", src, options, TRUE), src, crit, <<>>)

\* `${target.on.predicates} AND (${this.predicate}) `
FoldJoin(this, target) ==
  [this EXCEPT
     !.predicate =
        (IF target.on.predicates = UNDEF THEN S_undefined
         ELSE JoinWith(target.on.predicates, <<",">>))
        \o S_AND \o <<"(">> \o this.predicate \o <<")"," ">>]

\* the part of Update.format and Delete.format after the head, for a
\* compound Readable: this is the statement with the join predicate folded in
JoinTail(this, src, head, keyword) ==
  [this |-> this,
   sql |-> head \o keyword \o src.joins[1].relation \o <<" ">>
             \o JoinClauses(src.joins, 2, TRUE)
             \o S_WHERE \o this.predicate \o <<" ">>
             \o S_RETURNING \o src.delimitedFullName \o <<".","*">>]

\* the same part for a table
TableTail(this, head) ==
  [this |-> this,
   sql |-> head \o S_WHERE \o this.predicate \o <<" ">>
             \o S_RETURNING \o JoinWith(this.returning, <<","," ">>)]

\* Update.prototype.format
UpdateFormat(this, src) ==
  IF src.loader = "join"
    THEN JoinTail(FoldJoin(this, src.joins[1]), src,
                  <<"U","P","D","A","T","E"," ">>
                    \o (IF this.only THEN S_ONLY ELSE <<>>)
                    \o src.delimitedFullName \o <<" ","S","E","T"," ">>
                    \o JoinWith(this.changes, <<","," ">>) \o <<" ">>,
                  <<"F","R","O","M"," ">>)
    ELSE TableTail(this,
                   <<"U","P","D","A","T","E"," ">>
                     \o (IF this.only THEN S_ONLY ELSE <<>>)
                     \o src.delimitedFullName \o <<" ","S","E","T"," ">>
                     \o JoinWith(this.changes, <<","," ">>) \o <<" ">>)

\* Delete.prototype.format
DeleteFormat(this, src) ==
  IF src.loader = "join"
    THEN JoinTail(FoldJoin(this, src.joins[1]), src,
                  <<"D","E","L","E","T","E"," ","F","R","O","M"," ">>
                    \o (IF this.only THEN S_ONLY ELSE <<>>)
                    \o src.delimitedFullName \o <<" ">>,
                  <<"U","S","I","N","G"," ">>)
    ELSE TableTail(this,
                   <<"D","E","L","E","T","E"," ","F","R","O","M"," ">>
                     \o (IF this.only THEN S_ONLY ELSE <<>>)
                     \o src.delimitedFullName \o <<" ">>)

(***************************************************************************)
(* statement/join.js: Insert                                               *)
(***************************************************************************)

S_onConflictIgnore == <<"o","n","C","o","n","f","l","i","c","t","I","g","n","o","r","e">>
S_onConflictUpdate == <<"o","n","C","o","n","f","l","i","c","t","U","p","d","a","t","e">>
S_onConflictUpdateExclude ==
  <<"o","n","C","o","n","f","l","i","c","t","U","p","d","a","t","e","E","x","c","l","u","d","e">>
S_onConflict == <<"o","n","C","o","n","f","l","i","c","t">>
S_deepInsert == <<"d","e","e","p","I","n","s","e","r","t">>
S_action == <<"a","c","t","i","o","n">>
S_target == <<"t","a","r","g","e","t">>
S_targetExpr == <<"t","a","r","g","e","t","E","x","p","r">>
S_exclude == <<"e","x","c","l","u","d","e">>
S_ignore == <<"i","g","n","o","r","e">>
S_update == <<"u","p","d","a","t","e">>

\* _.intersection(a, b) and _.difference(a, b), in the order of a
intersection(a, b) == SelectSeq(a, LAMBDA x : \E i \in 1..Len(b) : b[i] = x)
difference(a, b) == SelectSeq(a, LAMBDA x : \A i \in 1..Len(b) : b[i] # x)

\* set.add of the keys of a record from the i-th on
RECURSIVE AddKeys(_, _, _)
AddKeys(set, entries, i) ==
  IF i > Len(entries) THEN set
  ELSE AddKeys(IF \E n \in 1..Len(set) : set[n] = entries[i].s
                 THEN set ELSE Append(set, entries[i].s),
               entries, i + 1)

\* the reducer of compileFieldSet over the records from the i-th on
RECURSIVE FieldSet(_, _, _)
FieldSet(records, i, set) ==
  IF i > Len(records) THEN set
  ELSE FieldSet(records, i + 1, AddKeys(set, Entries(records[i]), 1))

\* Insert.prototype.compileFieldSet
compileFieldSet(records) == FieldSet(records, 1, <<>>)

\* util/prepare-params.js for a list of records: for each record in turn the
\* value of each of the keys, undefined where the record has none
RECURSIVE prepareRecords(_, _, _)
prepareRecords(keys, records, i) ==
  IF i > Len(records) THEN <<>>
  ELSE [n \in 1..Len(keys) |->
          IF records[i].t = "object" THEN Get(records[i], keys[n])
          ELSE Undefined]
       \o prepareRecords(keys, records, i + 1)

\* parseOnConflict without the test of lines 108-110
parseOnConflictUnchecked(options) ==
  IF Truthy(Get(options, S_onConflictIgnore))
    THEN [threw |-> FALSE,
          onConflict |-> Obj(<<Ent(S_action, Str(S_ignore))>>)]
  ELSE IF Truthy(Get(options, S_onConflictUpdate))
    THEN [threw |-> FALSE,
          onConflict |->
            Obj(<<Ent(S_action, Str(S_update)),
                  Ent(S_target, Get(options, S_onConflictUpdate)),
                  Ent(S_exclude, Get(options, S_onConflictUpdateExclude))>>)]
  ELSE [threw |-> FALSE, onConflict |-> Get(options, S_onConflict)]

\* Insert.prototype.parseOnConflict
parseOnConflict(options) ==
  IF Cardinality({k \in {S_onConflictIgnore, S_onConflictUpdate, S_onConflict} :
                    Get(options, k).t \notin {"null", "undefined"}}) > 1
    THEN [threw |-> TRUE, onConflict |-> Undefined]
  ELSE IF Truthy(Get(options, S_onConflictIgnore))
    THEN [threw |-> FALSE,
          onConflict |-> Obj(<<Ent(S_action, Str(S_ignore))>>)]
  ELSE IF Truthy(Get(options, S_onConflictUpdate))
    THEN [threw |-> FALSE,
          onConflict |->
            Obj(<<Ent(S_action, Str(S_update)),
                  Ent(S_target, Get(options, S_onConflictUpdate)),
                  Ent(S_exclude, Get(options, S_onConflictUpdateExclude))>>)]
  ELSE [threw |-> FALSE, onConflict |-> Get(options, S_onConflict)]

\* Object.keys(junction[0]): junction[0] of what is no array, or of an empty
\* one, is undefined, which Object.keys throws on
JunctionKeys(junction) ==
  IF junction.t # "array" \/ junction.a = <<>>
       \/ junction.a[1].t \in {"null", "undefined"}
    THEN [threw |-> TRUE, keys |-> <<>>]
    ELSE [threw |-> FALSE,
          keys |-> [n \in 1..Len(Entries(junction.a[1])) |->
                      Entries(junction.a[1])[n].s]]

\* lines 89-94: the reducer over the junctions from the i-th on
RECURSIVE JunctionParams(_, _, _, _)
JunctionParams(this, i, allParams, found) ==
  IF i > Len(this.junctions) THEN [this EXCEPT !.params = allParams]
  ELSE IF found.threw THEN [this EXCEPT !.threw = TRUE]
  ELSE JunctionParams(
         this, i + 1,
         allParams
           \o SelectSeq(prepareRecords(found.keys,
                                       Get(this.records[1], this.junctions[i]).a,
                                       1),
                        LAMBDA v : v.t # "undefined"),
         IF i + 1 > Len(this.junctions) THEN found
         ELSE JunctionKeys(Get(this.records[1], this.junctions[i + 1])))

\* the test of line 81 left out
InsertParamsUnchecked(this, src, options) ==
  IF this.threw THEN this
  ELSE IF (src.loader = "join" \/ Truthy(Get(options, S_deepInsert)))
          /\ this.junctions # <<>>
    THEN JunctionParams(this, 1,
                        prepareRecords(this.columns, this.records, 1),
                        JunctionKeys(Get(this.records[1], this.junctions[1])))
  ELSE [this EXCEPT
          !.params = prepareRecords(this.columns, this.records, 1),
          !.junctions = UNDEF]

\* lines 80-99
InsertParams(this, src, options) ==
  IF this.threw THEN this
  ELSE IF (src.loader = "join" \/ Truthy(Get(options, S_deepInsert)))
          /\ this.junctions # <<>>
    THEN IF Len(this.records) > 1 THEN [this EXCEPT !.threw = TRUE]
         ELSE JunctionParams(
                this, 1, prepareRecords(this.columns, this.records, 1),
                JunctionKeys(Get(this.records[1], this.junctions[1])))
  ELSE [this EXCEPT
          !.params = prepareRecords(this.columns, this.records, 1),
          !.junctions = UNDEF]

\* lines 69-78, fields being compileFieldSet(this.records)
InsertFields(this, src, record, fields, conflict) ==
  [this EXCEPT
     !.single = record.t # "array",
     !.columns = intersection(fields, src.columnNames),
     !.junctions = difference(fields, src.columnNames),
     !.onConflict = conflict.onConflict,
     !.threw = conflict.threw]

\* new Insert(source, record, options)
Insert(src, record, options) ==
  InsertParams(
    InsertFields([Statement("Insert", src, StatementOptions(options), TRUE)
                    EXCEPT !.records = IF record.t = "array" THEN record.a
                                       ELSE <<record>>],
                 src, record,
                 compileFieldSet(IF record.t = "array" THEN record.a
                                 ELSE <<record>>),
                 parseOnConflict(options)),
    src, options)

\* `$${n}` for each n of _.range(from, from + count)
PlaceholderRange(from, count) == [n \in 1..count |-> Placeholder(from + n - 1)]

\* lines 149-157: one tuple of placeholders for each record
ValuesList(this) ==
  JoinWith([r \in 1..Len(this.records) |->
              <<"(">>
                \o JoinWith(PlaceholderRange(1 + (r - 1) * Len(this.columns),
                                             Len(this.columns)),
                            <<","," ">>)
                \o <<")">>],
           <<","," ">>)

\* _.isEmpty(this.onConflict)
isEmpty(v) ==
  CASE v.t = "object" -> v.a = <<>>
    [] v.t = "array" -> v.a = <<>>
    [] v.t = "string" -> v.s = <<>>
    [] OTHER -> TRUE

\* lines 166-169: the conflict target, or the target expression
ConflictTarget(onConflict) ==
  IF Truthy(Get(onConflict, S_target))
    THEN <<"(">>
           \o JoinWith([i \in 1..Len(castArray(Get(onConflict, S_target))) |->
                          quote(castArray(Get(onConflict, S_target))[i])],
                       <<","," ">>)
           \o <<")"," ">>
  ELSE IF Truthy(Get(onConflict, S_targetExpr))
    THEN <<"(">> \o ToStr(Get(onConflict, S_targetExpr)) \o <<")">>
  ELSE <<>>

\* line 174: (exclude || []).concat(target)
excludedFieldsArray(onConflict) ==
  (IF Truthy(Get(onConflict, S_exclude))
     THEN castArray(Get(onConflict, S_exclude)) ELSE <<>>)
    \o (IF Get(onConflict, S_target).t \in {"null", "undefined"}
          THEN <<>> ELSE castArray(Get(onConflict, S_target)))

\* line 175: the assignments of DO UPDATE SET
fieldsToUpdate(this) ==
  [i \in 1..Len(difference(this.columns, excludedFieldsArray(this.onConflict))) |->
     quote(difference(this.columns, excludedFieldsArray(this.onConflict))[i])
       \o <<" ","="," ","E","X","C","L","U","D","E","D",".">>
       \o quote(difference(this.columns, excludedFieldsArray(this.onConflict))[i])]

\* lines 161-182: the ON CONFLICT clause
ConflictClause(this) ==
  IF isEmpty(this.onConflict) THEN [threw |-> FALSE, text |-> <<>>]
  ELSE IF ~Truthy(Get(this.onConflict, S_action))
            \/ Get(this.onConflict, S_action).t # "string"
    THEN [threw |-> TRUE, text |-> <<>>]
  ELSE [threw |-> FALSE,
        text |->
          <<"O","N"," ","C","O","N","F","L","I","C","T"," ">>
            \o ConflictTarget(this.onConflict)
            \o (CASE ToLowerCase(ToStr(Get(this.onConflict, S_action))) = S_ignore
                       -> <<"D","O"," ","N","O","T","H","I","N","G"," ">>
                  [] ToLowerCase(ToStr(Get(this.onConflict, S_action))) = S_update
                       -> <<"D","O"," ","U","P","D","A","T","E"," ","S","E","T"," ">>
                            \o JoinWith(fieldsToUpdate(this), <<","," ">>)
                            \o <<" ">>
                  [] OTHER -> <<>>)]

\* lines 147-184: the INSERT itself
InsertText(this, src, conflict) ==
  <<"I","N","S","E","R","T"," ","I","N","T","O"," ">>
    \o src.delimitedFullName \o <<" ","(">>
    \o JoinWith([i \in 1..Len(this.columns) |-> quote(this.columns[i])],
                <<","," ">>)
    \o <<")"," ","V","A","L","U","E","S"," ">> \o ValuesList(this) \o <<" ">>
    \o conflict.text
    \o S_RETURNING \o JoinWith(this.returning, <<","," ">>)

\* String.prototype.split('.')
RECURSIVE SplitDots(_, _, _)
SplitDots(str, i, part) ==
  IF i > Len(str) THEN <<part>>
  ELSE IF str[i] = "." THEN <<part>> \o SplitDots(str, i + 1, <<>>)
  ELSE SplitDots(str, i + 1, Append(part, str[i]))

\* lines 198-207: the keys of a dependent record whose value is undefined,
\* then the others
keyColumns(r) ==
  [i \in 1..Len(SelectSeq(Entries(r), LAMBDA e : e.a[1].t = "undefined")) |->
     SelectSeq(Entries(r), LAMBDA e : e.a[1].t = "undefined")[i].s]
valColumns(r) ==
  [i \in 1..Len(SelectSeq(Entries(r), LAMBDA e : e.a[1].t # "undefined")) |->
     SelectSeq(Entries(r), LAMBDA e : e.a[1].t # "undefined")[i].s]

\* lines 195-215: the dependent INSERT of record jdx of junction idx, its
\* placeholders starting at from
JunctionQuery(src, j, idx, jdx, r, from) ==
  <<"q","_">> \o Digits(idx) \o <<"_">> \o Digits(jdx)
    \o <<" ","A","S"," ","(","I","N","S","E","R","T"," ","I","N","T","O"," ">>
    \o JoinWith([i \in 1..Len(SplitDots(j, 1, <<>>)) |->
                   quote(SplitDots(j, 1, <<>>)[i])], <<".">>)
    \o <<" ","(">>
    \o JoinWith([i \in 1..Len(keyColumns(r) \o valColumns(r)) |->
                   quote((keyColumns(r) \o valColumns(r))[i])], <<","," ">>)
    \o <<")"," ","S","E","L","E","C","T"," ">>
    \o <<"\"">> \o JoinWith(src.pk, <<"\"",","," ","\"">>) \o <<"\"">>
    \o <<","," ">> \o JoinWith(PlaceholderRange(from, Len(valColumns(r))),
                               <<","," ">>)
    \o <<" ","F","R","O","M"," ","i","n","s","e","r","t","e","d",")">>

\* lines 195-215: the dependent INSERTs of the records of one junction from the
\* jdx-th on
RECURSIVE RecordQueries(_, _, _, _, _, _)
RecordQueries(src, j, idx, rs, jdx, from) ==
  IF jdx >= Len(rs) THEN [queries |-> <<>>, offset |-> from]
  ELSE [queries |->
          <<JunctionQuery(src, j, idx, jdx, rs[jdx + 1], from)>>
            \o RecordQueries(src, j, idx, rs, jdx + 1,
                             from + Len(valColumns(rs[jdx + 1]))).queries,
        offset |->
          RecordQueries(src, j, idx, rs, jdx + 1,
                        from + Len(valColumns(rs[jdx + 1]))).offset]

\* lines 188-216: the reducer over the junctions from the idx-th on
RECURSIVE JunctionQueries(_, _, _, _, _)
JunctionQueries(this, src, idx, from, queries) ==
  IF idx >= Len(this.junctions) THEN [threw |-> FALSE, queries |-> queries]
  ELSE IF Get(this.records[1], this.junctions[idx + 1]).t # "array"
    THEN [threw |-> TRUE, queries |-> queries]
  ELSE JunctionQueries(
         this, src, idx + 1,
         RecordQueries(src, this.junctions[idx + 1], idx,
                       Get(this.records[1], this.junctions[idx + 1]).a,
                       0, from).offset,
         queries \o RecordQueries(src, this.junctions[idx + 1], idx,
                                  Get(this.records[1], this.junctions[idx + 1]).a,
                                  0, from).queries)

\* line 218: the dependent INSERTs wrapped around the INSERT
DeepInsertText(text, junctions) ==
  <<"W","I","T","H"," ","i","n","s","e","r","t","e","d"," ","A","S"," ","(">>
    \o text \o <<")",","," ">> \o JoinWith(junctions.queries, <<","," ">>)
    \o <<" ","S","E","L","E","C","T"," ","*"," ","F","R","O","M"," ",
         "i","n","s","e","r","t","e","d">>

\* Insert.prototype.format
InsertFormat(this, src) ==
  IF ConflictClause(this).threw
    THEN [this |-> [this EXCEPT !.threw = TRUE], sql |-> <<>>]
  ELSE IF this.junctions = UNDEF
    THEN [this |-> this, sql |-> InsertText(this, src, ConflictClause(this))]
  ELSE IF src.pk = UNDEF
            \/ JunctionQueries(this, src, 0,
                               1 + Len(this.records) * Len(this.columns),
                               <<>>).threw
    THEN [this |-> [this EXCEPT !.threw = TRUE], sql |-> <<>>]
  ELSE [this |-> this,
        sql |-> DeepInsertText(
                  InsertText(this, src, ConflictClause(this)),
                  JunctionQueries(this, src, 0,
                                  1 + Len(this.records) * Len(this.columns),
                                  <<>>))]

\* statement.format()
format(this, src) ==
  CASE this.type = "Select" -> SelectFormat(this, src)
    [] this.type = "Insert" -> InsertFormat(this, src)
    [] this.type = "Update" -> UpdateFormat(this, src)
    [] OTHER -> DeleteFormat(this, src)

(***************************************************************************)
(* The catalog and the inputs of the model                                 *)
(***************************************************************************)

\* bounds of the inputs
MaxJoins == 2
MaxPath == 2
MaxLeaves == 2
MaxArr == 3
MaxOffset == 1
MaxDepth == 2
MaxFormats == 2
MaxCalls == 2
MaxCompiles == 2

N_id == <<"i","d">>
N_n == <<"n">>
N_u == <<"u">>
N_s == <<"s">>
N_int == <<"i","n","t">>

\* the origin: table s.u (s is db.currentSchema), columns id and n, pk id
Users == Readable(N_s, N_u, N_s, <<N_id, N_n>>, <<N_id>>)

\* a join node as the reducer of join() leaves it, before its ON clause is
\* compiled
Node(alias, schema, relation, on) ==
  [alias |-> alias, schema |-> schema, relation |-> relation,
   type |-> <<"I","N","N","E","R">>, columnNames |-> <<N_id, N_n>>, on |-> on]

\* {vid: {relation: 'v', on: {id: 'u.id', n: 5}}}
NodeVid ==
  Node(<<"v","i","d">>, UNDEF, <<"v">>,
       Obj(<<Ent(N_id, Str(<<"u",".","i","d">>)), Ent(N_n, Num(5))>>))

\* {'x.p': {on: {id: 'u.id'}}}
NodeP ==
  Node(<<"p">>, <<"x">>, <<"p">>, Obj(<<Ent(N_id, Str(<<"u",".","i","d">>))>>))

\* {q: {relation: 'p', on: {n: 'u.n'}}}
NodeQ ==
  Node(<<"q">>, UNDEF, <<"p">>, Obj(<<Ent(N_n, Str(<<"u",".","n">>))>>))

NodePool == {NodeVid, NodeP, NodeQ}

\* the sequences of at most n distinct members of S
RECURSIVE DistinctSeqs(_, _)
DistinctSeqs(S, n) ==
  IF n = 0 THEN {<<>>}
  ELSE LET shorter == DistinctSeqs(S, n - 1)
       IN shorter \cup
          {Append(q, x) : <<q, x>> \in
             {y \in shorter \X S :
                \A i \in 1..Len(y[1]) : y[1][i] # y[2]}}

CompoundSources ==
  {Compound(Users, nodes) : nodes \in DistinctSeqs(NodePool, MaxJoins) \ {<<>>}}

KeySources == {Users} \cup CompoundSources

\* the sequences of at most n members of S
RECURSIVE SeqsUpTo(_, _)
SeqsUpTo(S, n) ==
  IF n = 0 THEN {<<>>}
  ELSE LET shorter == SeqsUpTo(S, n - 1)
       IN shorter \cup {Append(q, x) : <<q, x>> \in shorter \X S}

\* string concatenation of a sequence of strings
Cat(strs) == JoinWith(strs, <<>>)

KeyPrefixes ==
  {<<>>, <<"u",".">>, <<"s",".","u",".">>, <<"v","i","d",".">>, <<"v",".">>,
   <<"p",".">>, <<"x",".","p",".">>, <<"q",".">>}
KeyFields == {N_id, N_n, <<"\"","a"," ","b","\"">>}
KeySegments == {<<".","a">>, <<"[","1","]">>}
KeyCasts == {<<>>, <<":",":","i","n","t">>}
KeyOperations == {<<>>, <<" ",">","=">>}

\* field references: [relation path] field [JSON path] [cast] [operation]
Keys ==
  {prefix \o field \o Cat(path) \o cast \o operation :
     <<prefix, field, path, cast, operation>> \in
       KeyPrefixes \X KeyFields \X SeqsUpTo(KeySegments, MaxPath)
         \X KeyCasts \X KeyOperations}


N_name == <<"n","a","m","e">>
N_age == <<"a","g","e">>
N_tags == <<"t","a","g","s">>
N_at == <<"a","t">>
N_zz == <<"z","z">>
S_Alice == <<"A","l","i","c","e">>
S_gte == <<">","=">>
S_between == <<"b","e","t","w","e","e","n">>

\* the i-th key of a criteria map names the i-th of these columns
LeafFields == <<N_name, N_age, N_tags, N_at>>

\* the keys of the operator table
OperationKeys == {map[i].key : i \in 1..Len(map)}

\* 'field', 'field.a', 'field <operation>' or 'field.a <operation>'
LeafKey(field, json, operation) ==
  field \o (IF json THEN <<".","a">> ELSE <<>>)
        \o (IF operation = <<>> THEN <<>> ELSE <<" ">> \o operation)

\* {'>=': 21}
OperatorMap == Obj(<<Ent(S_gte, Num(21))>>)

Scalars == {Num(0), Num(21), Str(<<>>), Str(S_Alice), Date(1)}
Literals == {Null, Bool(TRUE), Bool(FALSE)}
ArrElems == {Num(1), Date(2)}
Arrays == {Arr(s) : s \in SeqsUpTo(ArrElems, MaxArr)}
Values == Scalars \cup Literals \cup Arrays \cup {OperatorMap}

\* criteria of one field comparison: every operation with every value, on a
\* column and on a JSON path
SingleLeaves ==
  {Obj(<<Ent(LeafKey(N_age, json, operation), value)>>) :
     <<json, operation, value>> \in
       BOOLEAN \X (OperationKeys \cup {<<>>}) \X Values}

\* the comparisons that criteria of several keys are made of:
\* <<on a JSON path, operation, value>>
LeafPool ==
  {<<FALSE, <<>>, Str(S_Alice)>>,
   <<FALSE, <<>>, Num(0)>>,
   <<FALSE, <<>>, Null>>,
   <<FALSE, <<"!","=">>, Bool(TRUE)>>,
   <<FALSE, <<>>, Arr(<<>>)>>,
   <<FALSE, <<"<",">">>, Arr(<<Num(1), Date(2)>>)>>,
   <<FALSE, <<">">>, Num(0)>>,
   <<FALSE, S_gte, Num(21)>>,
   <<FALSE, S_between, Arr(<<Num(1), Date(2)>>)>>,
   <<FALSE, S_between, Arr(<<Num(1)>>)>>,
   <<FALSE, <<"@",">">>, Arr(<<Num(1)>>)>>,
   <<FALSE, <<>>, OperatorMap>>,
   <<TRUE, <<>>, Num(21)>>,
   <<TRUE, <<>>, Arr(<<Num(1), Date(2)>>)>>}

\* criteria of 2..MaxLeaves field comparisons
SeveralLeaves ==
  {Obj([i \in 1..Len(leaves) |->
          Ent(LeafKey(LeafFields[i], leaves[i][1], leaves[i][2]), leaves[i][3])]) :
     leaves \in SeqsUpTo(LeafPool, MaxLeaves) \ SeqsUpTo(LeafPool, 1)}

LeafA == Ent(N_name, Str(S_Alice))
LeafB == Ent(LeafKey(N_age, FALSE, S_gte), Num(21))

\* criteria without a group, the innermost members of a criteria tree
BaseCriteria ==
  {Obj(<<LeafA>>), Obj(<<LeafB>>), Obj(<<LeafA, LeafB>>),
   Obj(<<Ent(N_tags, Arr(<<Num(1), Date(2)>>))>>),
   Obj(<<Ent(N_name, Null)>>)}

\* the group keys, each with a group key of the other kind
Connectives ==
  {<<S_or, S_dollar_and>>, <<S_dollar_or, S_and>>,
   <<S_and, S_dollar_or>>, <<S_dollar_and, S_or>>}

\* the criteria that nest the criteria m in a group under the key c[1]: alone,
\* between two field comparisons, between two sibling members, and next to a
\* group under the key c[2]
Wrap(m, c) ==
  {Obj(<<Ent(c[1], Arr(<<m>>))>>),
   Obj(<<LeafA, Ent(c[1], Arr(<<m>>)), LeafB>>),
   Obj(<<Ent(c[1], Arr(<<Obj(<<LeafA>>), m, Obj(<<LeafB>>)>>))>>),
   Obj(<<Ent(c[1], Arr(<<m>>)), Ent(c[2], Arr(<<Obj(<<LeafB>>)>>))>>)}

\* criteria trees nested at most d deep
RECURSIVE Trees(_)
Trees(d) ==
  IF d = 0 THEN BaseCriteria
  ELSE LET inner == Trees(d - 1)
       IN inner \cup UNION {Wrap(m, c) : <<m, c>> \in inner \X Connectives}

\* {conditions: 'x = $1', params: [3]} with and without a where
RawCriteria ==
  {Obj(<<Ent(S_conditions, Str(<<"x"," ","="," ","$","1">>)),
         Ent(S_params, Arr(<<Num(3)>>))>>),
   Obj(<<Ent(S_conditions, Str(<<"x"," ","="," ","$","1">>)),
         Ent(S_params, Arr(<<Num(3)>>)),
         Ent(S_where, Obj(<<LeafA, LeafB>>))>>)}

Offsets == 0..MaxOffset \cup {9}

\* the options of a statement: none, only and single, document
\* the options [only, single, document] as the object a caller passes
OptionsObject(options) ==
  Obj(<<Ent(S_only, Bool(options.only)), Ent(S_single, Bool(options.single)),
        Ent(S_document, Bool(options.document))>>)

Options ==
  {[only |-> FALSE, single |-> FALSE, document |-> FALSE],
   [only |-> TRUE, single |-> TRUE, document |-> FALSE],
   [only |-> FALSE, single |-> FALSE, document |-> TRUE]}

\* the changes of an Update: {n: 7}, {zz: 2, n: 'Alice', id: 1},
\* {n: 7, $set: {id: 'id + 1'}}, {n: 7, $set: {n: 'n + 1'}},
\* {zz: 2, n: 7, $set: {zz: 'n + 1'}} and {n: 7, $set: {$set: 'n + 1'}}
ChangeSets ==
  {Obj(<<Ent(N_n, Num(7))>>),
   Obj(<<Ent(N_zz, Num(2)), Ent(N_n, Str(S_Alice)), Ent(N_id, Num(1))>>),
   Obj(<<Ent(N_n, Num(7)),
         Ent(S_set, Obj(<<Ent(N_id, Str(<<"i","d"," ","+"," ","1">>))>>))>>),
   Obj(<<Ent(N_n, Num(7)),
         Ent(S_set, Obj(<<Ent(N_n, Str(<<"n"," ","+"," ","1">>))>>))>>),
   Obj(<<Ent(N_zz, Num(2)), Ent(N_n, Num(7)),
         Ent(S_set, Obj(<<Ent(N_zz, Str(<<"n"," ","+"," ","1">>))>>))>>),
   Obj(<<Ent(N_n, Num(7)),
         Ent(S_set, Obj(<<Ent(S_set, Str(<<"n"," ","+"," ","1">>))>>))>>)}

\* the criteria statements are built from: {}, field comparisons, a primary
\* key search, a primitive primary key, null, a tree and prebuilt conditions
StatementCriteria ==
  {Obj(<<>>), Obj(<<LeafA>>), Obj(<<LeafA, LeafB>>), Obj(<<Ent(N_id, Num(21))>>),
   Num(21), Null} \cup Trees(1) \cup RawCriteria

\* the kind and alias arguments predicate is called with: forJoin while a
\* compound Readable compiles the ON clause of one of its nodes, forDoc (whose
\* field comparisons document-predicate.js compiles) for {} only
Kinds(src, crit) ==
  {<<forWhere, UNDEF>>}
    \cup {<<forJoin, src.joins[i].alias>> : i \in 1..Len(src.joins)}
    \cup (IF crit = Obj(<<>>) THEN {<<forDoc, UNDEF>>} ELSE {})

(***************************************************************************)
(* The catalog join() resolves against, and the definitions it is given    *)
(***************************************************************************)

N_p == <<"p">>
N_c == <<"c">>
N_r == <<"r">>
N_t == <<"t">>
N_v == <<"v">>
N_w == <<"w">>
N_x == <<"x">>
N_q == <<"q">>
N_vid == <<"v","i","d">>
N_xp == <<"x",".","p">>
S_u_id == <<"u",".","i","d">>

\* a table of the current schema s with the columns id and n and the pk id
Table(name, fks) ==
  Entity(Readable(N_s, name, N_s, <<N_id, N_n>>, <<N_id>>), fks)

\* the foreign key [fk] of a table: its column n references id of s.[name]
References(fk, name) == Fk(fk, <<N_n>>, N_s, name, <<N_id>>)

\* the origin u references r; p references u; c references p; r and t
\* reference themselves; v references u twice; w is a view without a primary
\* key; x.p lies in another schema
TableU == Table(N_u, <<References(<<"u","_","r">>, N_r)>>)
TableP == Table(N_p, <<References(<<"p","_","u">>, N_u)>>)
TableC == Table(N_c, <<References(<<"c","_","p">>, N_p)>>)
TableR == Table(N_r, <<References(<<"r","_","r">>, N_r)>>)
TableT == Table(N_t, <<References(<<"t","_","t">>, N_t)>>)
TableV ==
  Table(N_v, <<References(<<"v","_","u","1">>, N_u),
               Fk(<<"v","_","u","2">>, <<N_id>>, N_s, N_u, <<N_id>>)>>)
ViewW == Entity(Readable(N_s, N_w, N_s, <<N_id, N_n>>, UNDEF), <<>>)
TableXP == Entity(Readable(N_x, N_p, N_s, <<N_id, N_n>>, <<N_id>>), <<>>)

\* the database: the entities of the current schema under their names, the
\* others under schema and name
Db ==
  <<[path |-> <<N_u>>, entity |-> TableU],
    [path |-> <<N_p>>, entity |-> TableP],
    [path |-> <<N_c>>, entity |-> TableC],
    [path |-> <<N_r>>, entity |-> TableR],
    [path |-> <<N_t>>, entity |-> TableT],
    [path |-> <<N_v>>, entity |-> TableV],
    [path |-> <<N_w>>, entity |-> ViewW],
    [path |-> <<N_x, N_p>>, entity |-> TableXP]>>

OnId == Ent(S_on, Obj(<<Ent(N_id, Str(S_u_id))>>))

\* nodes that leave `on` to the foreign keys: p: {}, c: {}, r: {}, t: {},
\* v: {}, q: {relation: 'p'}, zz: {} (no such relation) and
\* u: {relation: 'p'} (the alias is the origin's name)
KeyedNodes ==
  {Ent(N_p, Obj(<<>>)), Ent(N_c, Obj(<<>>)), Ent(N_r, Obj(<<>>)),
   Ent(N_t, Obj(<<>>)), Ent(N_v, Obj(<<>>)),
   Ent(N_q, Obj(<<Ent(S_relation, Str(N_p))>>)),
   Ent(N_zz, Obj(<<>>)),
   Ent(N_u, Obj(<<Ent(S_relation, Str(N_p))>>))}

\* nodes with an explicit `on`:
\* vid: {relation: 'v', on: {id: 'u.id', n: 5}, omit: true},
\* 'x.p': {on: {id: 'u.id'}, type: 'LEFT OUTER', decomposeTo: 'object'},
\* w: {pk: 'n', on: {id: 'u.id'}} and w: {on: {id: 'u.id'}} (no pk)
ExplicitNodes ==
  {Ent(N_vid, Obj(<<Ent(S_relation, Str(N_v)),
                    Ent(S_on, Obj(<<Ent(N_id, Str(S_u_id)), Ent(N_n, Num(5))>>)),
                    Ent(S_omit, Bool(TRUE))>>)),
   Ent(N_xp, Obj(<<OnId,
                   Ent(S_type, Str(<<"L","E","F","T"," ","O","U","T","E","R">>)),
                   Ent(S_decomposeTo, Str(<<"o","b","j","e","c","t">>))>>)),
   Ent(N_w, Obj(<<Ent(S_pk, Str(N_n)), OnId>>)),
   Ent(N_w, Obj(<<OnId>>))}

DefinitionNodes == KeyedNodes \cup ExplicitNodes

\* the nodes deeper definitions are built from
DeepNodes ==
  {n \in DefinitionNodes :
     \/ n.s \in {N_p, N_c, N_vid, N_xp}
     \/ n.s = N_w /\ HasOwn(n.a[1], S_pk)}

\* {a: {..., b}}: the node b as a child of the node a
Under(a, b) == Ent(a.s, Obj(Append(a.a[1].a, b)))

\* the definition trees: one node, two siblings, a child, a child and a
\* sibling, two children, a grandchild
Shapes ==
  {<<a>> : a \in DefinitionNodes}
    \cup {<<a, b>> : <<a, b>> \in
            {y \in DefinitionNodes \X DefinitionNodes : y[1].s # y[2].s}}
    \cup {<<Under(a, b)>> : <<a, b>> \in DefinitionNodes \X DefinitionNodes}
    \cup {<<Under(a, b), c>> : <<a, b, c>> \in
            {y \in DeepNodes \X DeepNodes \X DeepNodes : y[1].s # y[3].s}}
    \cup {<<Under(Under(a, b), c)>> : <<a, b, c>> \in
            {y \in DeepNodes \X DeepNodes \X DeepNodes : y[2].s # y[3].s}}
    \cup {<<Under(a, Under(b, c))>> : <<a, b, c>> \in
            DeepNodes \X DeepNodes \X DeepNodes}

\* what a caller passes to join: a tree, a tree with a root pk, or the name
\* of a relation
Definitions ==
  {Obj(shape) : shape \in Shapes}
    \cup {Obj(<<Ent(S_pk, Str(N_n))>> \o shape) : shape \in Shapes}
    \cup {Str(N_p), Str(N_zz)}

(***************************************************************************)
(* The options a Select is constructed with                                *)
(***************************************************************************)

\* order entries: {field: 'n'}, {field: 'id', direction: 'desc', last: 3},
\* {field: 'n', type: 'int', direction: 'DESC', nulls: 'first', last: 7} and
\* {field: 'id', last: 5}
OrderN == Obj(<<Ent(S_field, Str(N_n))>>)
OrderIdDesc ==
  Obj(<<Ent(S_field, Str(N_id)), Ent(S_direction, Str(S_desc)),
        Ent(S_last, Num(3))>>)
OrderNCast ==
  Obj(<<Ent(S_field, Str(N_n)), Ent(S_type, Str(N_int)),
        Ent(S_direction, Str(<<"D","E","S","C">>)),
        Ent(S_nulls, Str(S_first)), Ent(S_last, Num(7))>>)
OrderIdLast == Obj(<<Ent(S_field, Str(N_id)), Ent(S_last, Num(5))>>)

\* the order lists, the empty one among them
OrderLists ==
  {<<>>, <<OrderN>>, <<OrderIdDesc>>, <<OrderIdLast>>,
   <<OrderNCast, OrderIdDesc>>, <<OrderIdLast, OrderNCast>>,
   <<OrderIdDesc, OrderN>>, <<OrderN, OrderIdDesc>>}

\* an option that may be absent: Undefined stands for a key not given
Opt(k, v) == IF v = Undefined THEN <<>> ELSE <<Ent(k, v)>>

\* lock: {strength: 'UPDATE'}, lock: {strength: 'SHARE', lockedRows:
\* 'NOWAIT'}, forUpdate: true, forShare: true, forUpdate: false, and
\* forShare: false or true with a lock
LockOptions ==
  {<<>>,
   <<Ent(S_lock, Obj(<<Ent(S_strength, Str(S_UPDATE))>>))>>,
   <<Ent(S_lock, Obj(<<Ent(S_strength, Str(S_SHARE)),
                       Ent(S_lockedRows,
                           Str(<<"N","O","W","A","I","T">>))>>))>>,
   <<Ent(S_forUpdate, Bool(TRUE))>>,
   <<Ent(S_forShare, Bool(TRUE))>>,
   <<Ent(S_forUpdate, Bool(FALSE))>>,
   <<Ent(S_forShare, Bool(FALSE)),
     Ent(S_lock, Obj(<<Ent(S_strength, Str(S_UPDATE))>>))>>,
   <<Ent(S_forShare, Bool(TRUE)),
     Ent(S_lock, Obj(<<Ent(S_strength, Str(S_UPDATE))>>))>>}

\* the options objects: every combination of only with single, distinct,
\* order, orderBody, pageLength, offset, limit and the lock options
SelectOptionsPool ==
  {Obj(Opt(S_only, o[1]) \o Opt(S_single, o[1]) \o Opt(S_distinct, o[2])
         \o Opt(S_order, o[3]) \o Opt(S_orderBody, o[4])
         \o Opt(S_pageLength, o[5]) \o Opt(S_offset, o[6])
         \o Opt(S_limit, o[7]) \o o[8]) :
     o \in {Undefined, Bool(TRUE)} \X {Undefined, Bool(TRUE)}
             \X ({Undefined} \cup {Arr(l) : l \in OrderLists})
             \X {Undefined, Bool(TRUE)}
             \X {Undefined, Num(10)}
             \X {Undefined, Num(0), Num(5)}
             \X {Undefined, Num(2)}
             \X LockOptions}


NoParsed ==
  [schema |-> UNDEF, relation |-> UNDEF, alias |-> UNDEF, field |-> UNDEF,
   path |-> <<>>, lhs |-> <<>>, jsonElements |-> <<>>,
   remainder |-> UNDEF, isJSON |-> FALSE]

NoOrderExpr == [threw |-> FALSE, text |-> <<>>]

NoAssemblage ==
  [threw |-> FALSE, predicate |-> <<>>, predicates |-> <<>>, params |-> <<>>]

\* nothing called yet
Idle ==
  /\ pc = "ready"
  /\ jsonAsText = TRUE
  /\ orderType = UNDEF
  /\ parsed = NoParsed
  /\ orderExpr = NoOrderExpr
  /\ offset = 0
  /\ kind = forWhere
  /\ joinAlias = UNDEF
  /\ changes = Obj(<<>>)
  /\ assemblage = NoAssemblage
  /\ statement = NoStatement
  /\ formats = 0
  /\ sql = <<>>
  /\ selectOptions = Undefined
  /\ operations = map
  /\ compiles = <<>>
  /\ pkSearch = FALSE
  /\ insertRecord = Undefined
  /\ insertOptions = Undefined

\* join() not called
NoJoin ==
  /\ callerDefinition = Undefined
  /\ originalDefinition = Undefined
  /\ entityCache = <<>>
  /\ joinResult = NoCompound
  /\ returned = <<>>

(***************************************************************************)
(* The key resolver as a state machine: a call of parseKey or of           *)
(* Select.buildOrderExpression on a field reference                        *)
(***************************************************************************)

InitKey ==
  /\ Idle
  /\ NoJoin
  /\ source \in KeySources
  /\ key \in Keys
  /\ criteria = Obj(<<>>)

\* parseKey(key, source, asText)
ParseKey ==
  /\ pc = "ready"
  /\ \E asText \in BOOLEAN :
       /\ jsonAsText' = asText
       /\ parsed' = parseKey(key, source, asText)
  /\ pc' = "parseKey"
  /\ UNCHANGED <<source, key, orderType, orderExpr, predVars, selectOptions, joinVars,
                 compileVars, pkSearch, insertVars>>

\* Select.buildOrderExpression({field: key, type}) on source, without
\* options.orderBody
BuildOrderExpression ==
  /\ pc = "ready"
  /\ \E type \in {UNDEF, N_int} :
       /\ orderType' = type
       /\ jsonAsText' = (type # UNDEF)
       /\ orderExpr' = buildOrderExpression(
                         source,
                         [field |-> key, expr |-> UNDEF, type |-> type],
                         FALSE)
  /\ pc' = "buildOrderExpression"
  /\ UNCHANGED <<source, key, parsed, predVars, selectOptions, joinVars,
                 compileVars, pkSearch, insertVars>>

NextKey == ParseKey \/ BuildOrderExpression

SpecKey == InitKey /\ [][NextKey]_vars

(***************************************************************************)
(* The predicate compiler as a state machine: a call of Readable.predicate *)
(* on a criteria object                                                    *)
(***************************************************************************)

\* the compound Readable u JOIN v AS vid JOIN x.p
Joined == Compound(Users, <<NodeVid, NodeP>>)

InitPredicate ==
  /\ Idle
  /\ NoJoin
  /\ key = <<>>
  /\ \/ /\ source = Users
        /\ criteria \in {Obj(<<>>)} \cup SingleLeaves \cup SeveralLeaves
                          \cup Trees(MaxDepth) \cup RawCriteria
     \/ /\ source = Joined
        /\ criteria \in {Obj(<<>>)} \cup Trees(1)

\* source.predicate(criteria, off, kind, alias)
Predicate ==
  /\ pc = "ready"
  /\ criteria.t = "object"
  /\ \E off \in Offsets, ka \in Kinds(source, criteria) :
       /\ offset' = off
       /\ kind' = ka[1]
       /\ joinAlias' = ka[2]
       /\ assemblage' = predicate(source, criteria, off, ka[1], ka[2])
  /\ pc' = "predicate"
  /\ UNCHANGED <<source, criteria, changes, statement, formats, sql, keyVars,
                 selectOptions, joinVars,
                 compileVars, pkSearch, insertVars>>

NextPredicate == Predicate

SpecPredicate == InitPredicate /\ [][NextPredicate]_vars

(***************************************************************************)
(* The statements as a state machine: a Select, an Update or a Delete is   *)
(* constructed on a criteria object and formatted                          *)
(***************************************************************************)

Init ==
  /\ Idle
  /\ NoJoin
  /\ key = <<>>
  /\ source \in KeySources
  /\ criteria \in StatementCriteria

\* new Select(source, criteria, options)
NewSelect ==
  /\ pc = "ready"
  /\ \E options \in Options :
       /\ selectOptions' = OptionsObject(options)
       /\ statement' = Select(source, criteria, OptionsObject(options))
  /\ pc' = "statement"
  /\ UNCHANGED <<source, criteria, offset, kind, joinAlias, changes, assemblage,
                 formats, sql, keyVars, joinVars,
                 compileVars, pkSearch, insertVars>>

\* new Update(source, chg, criteria, options)
NewUpdate ==
  /\ pc = "ready"
  /\ \E options \in Options, chg \in ChangeSets :
       /\ changes' = chg
       /\ statement' = Update(source, chg, criteria, options)
  /\ pc' = "statement"
  /\ UNCHANGED <<source, criteria, offset, kind, joinAlias, assemblage, formats,
                 sql, keyVars, selectOptions, joinVars,
                 compileVars, pkSearch, insertVars>>

\* new Delete(source, criteria, options)
NewDelete ==
  /\ pc = "ready"
  /\ \E options \in Options :
       statement' = Delete(source, criteria, options)
  /\ pc' = "statement"
  /\ UNCHANGED <<source, criteria, offset, kind, joinAlias, changes, assemblage,
                 formats, sql, keyVars, selectOptions, joinVars,
                 compileVars, pkSearch, insertVars>>

\* what format() leaves: the statement as it is afterwards and the SQL text
Formatted(result) ==
  /\ statement' = result.this
  /\ sql' = result.sql

\* statement.format(), on a statement that was constructed
Format ==
  /\ pc = "statement"
  /\ ~statement.threw
  /\ formats < MaxFormats
  /\ Formatted(format(statement, source))
  /\ formats' = formats + 1
  /\ UNCHANGED <<pc, source, criteria, offset, kind, joinAlias, changes,
                 assemblage, keyVars, selectOptions, joinVars,
                 compileVars, pkSearch, insertVars>>

Next == Predicate \/ NewSelect \/ NewUpdate \/ NewDelete \/ Format

Spec == Init /\ [][Next]_vars

(***************************************************************************)
(* The compiler called again: a criteria object is compiled against the    *)
(* same relation with the same offset and kind, more than once             *)
(***************************************************************************)

InitCompile ==
  /\ Idle
  /\ NoJoin
  /\ key = <<>>
  /\ \/ /\ source = Users
        /\ criteria \in SeveralLeaves \cup Trees(1) \cup RawCriteria
     \/ /\ source = Joined
        /\ criteria \in Trees(1)

\* source.predicate(criteria, offset, kind, alias), the first time with any
\* offset and kind, then with the same
Recompile ==
  /\ pc \in {"ready", "compile"}
  /\ Len(compiles) < MaxCompiles
  /\ \E off \in Offsets, ka \in Kinds(source, criteria) :
       /\ pc = "compile" => off = offset /\ ka = <<kind, joinAlias>>
       /\ offset' = off
       /\ kind' = ka[1]
       /\ joinAlias' = ka[2]
       /\ assemblage' = predicate(source, criteria, off, ka[1], ka[2])
       /\ compiles' = Append(compiles,
                             predicate(source, criteria, off, ka[1], ka[2]))
       /\ operations' = Written(operations, source, criteria, ka[1], ka[2])
  /\ pc' = "compile"
  /\ UNCHANGED <<source, criteria, changes, statement, formats, sql, keyVars,
                 selectOptions, joinVars, pkSearch, insertVars>>

NextCompile == Recompile

SpecCompile == InitCompile /\ [][NextCompile]_vars

(***************************************************************************)
(* isPkSearch applied: a statement on a Readable is asked whether a        *)
(* criteria object is a primary key search                                 *)
(***************************************************************************)

\* table s.m with the composite primary key (id, n)
Memberships ==
  Readable(N_s, <<"m">>, N_s, <<N_id, N_n, N_age>>, <<N_id, N_n>>)

\* view s.w, without a primary key
Recent == Readable(N_s, N_w, N_s, <<N_id, N_n>>, UNDEF)

\* the keys of the criteria: pk columns, other columns, with an operation
PkKeys ==
  {N_id, N_n, N_age, LeafKey(N_id, FALSE, S_gte), LeafKey(N_n, FALSE, <<"<",">">>)}

\* criteria of up to two of the keys, {} among them
PkCriteria ==
  {Obj([i \in 1..Len(ks) |-> Ent(ks[i], Num(i))]) :
     ks \in DistinctSeqs(PkKeys, 2)}

InitPk ==
  /\ Idle
  /\ NoJoin
  /\ key = <<>>
  /\ source \in {Users, Memberships, Recent, Joined}
  /\ criteria \in PkCriteria

\* statement.isPkSearch(criteria) on a statement of source
IsPkSearch ==
  /\ pc = "ready"
  /\ pkSearch' = isPkSearch(source, criteria)
  /\ pc' = "isPkSearch"
  /\ UNCHANGED <<source, criteria, offset, kind, joinAlias, changes,
                 assemblage, statement, formats, sql, keyVars, selectOptions,
                 joinVars, compileVars, insertVars>>

NextPk == IsPkSearch

SpecPk == InitPk /\ [][NextPk]_vars

(***************************************************************************)
(* Select as a state machine: a Select is constructed from a table or a    *)
(* compound Readable, criteria and options, and then formatted             *)
(***************************************************************************)

InitSelect ==
  /\ Idle
  /\ NoJoin
  /\ key = <<>>
  /\ source \in {Users, Joined}
  /\ criteria \in {Obj(<<>>), Obj(<<LeafA, LeafB>>)}

\* new Select(source, criteria, options), with any of the options
NewSelectWithOptions ==
  /\ pc = "ready"
  /\ \E options \in SelectOptionsPool :
       /\ selectOptions' = options
       /\ statement' = Select(source, criteria, options)
  /\ pc' = "statement"
  /\ UNCHANGED <<source, criteria, offset, kind, joinAlias, changes, assemblage,
                 formats, sql, keyVars, joinVars,
                 compileVars, pkSearch, insertVars>>

NextSelect == NewSelectWithOptions \/ Format

SpecSelect == InitSelect /\ [][NextSelect]_vars

(***************************************************************************)
(* join() as a state machine: the caller joins the origin u to a           *)
(* definition, and then again, passing the same object or an equal copy    *)
(***************************************************************************)

InitJoin ==
  /\ Idle
  /\ key = <<>>
  /\ criteria = Obj(<<>>)
  /\ source = TableU
  /\ originalDefinition \in Definitions
  /\ callerDefinition = originalDefinition
  /\ entityCache = <<>>
  /\ joinResult = NoCompound
  /\ returned = <<>>

\* what join() leaves: its result, the definition object it was passed and
\* the cache
Joins(passed, result) ==
  /\ joinResult' = result.returns
  /\ entityCache' = result.entityCache
  /\ returned' = Append(returned, [passed |-> passed,
                                   threw |-> result.returns.threw,
                                   hit |-> result.returns.hit,
                                   object |-> result.returns.object])

\* source.join(definition), with the object the caller holds
Join ==
  /\ pc \in {"ready", "join"}
  /\ Len(returned) < MaxCalls
  /\ \E serializable \in BOOLEAN :
       /\ Joins(callerDefinition,
                join(Db, source, callerDefinition, entityCache, serializable))
       /\ callerDefinition' =
            join(Db, source, callerDefinition, entityCache,
                 serializable).definition
  /\ pc' = "join"
  /\ UNCHANGED <<source, originalDefinition, selectOptions, keyVars, predVars,
                 compileVars, pkSearch, insertVars>>

\* source.join(definition), with a new object equal to the one first written
JoinCopy ==
  /\ pc = "join"
  /\ Len(returned) < MaxCalls
  /\ Joins(originalDefinition,
           join(Db, source, originalDefinition, entityCache, TRUE))
  /\ pc' = "join"
  /\ UNCHANGED <<source, callerDefinition, originalDefinition, selectOptions,
                 keyVars, predVars, compileVars, pkSearch, insertVars>>

NextJoin == Join \/ JoinCopy

SpecJoin == InitJoin /\ [][NextJoin]_vars

(***************************************************************************)
(* join() called again with another definition: after the calls with the   *)
(* first definition the caller joins the origin to a definition that is    *)
(* valid                                                                   *)
(***************************************************************************)

\* {p: {}} and {'x.p': {on: {id: 'u.id'}}, c: {on: {id: 'u.id'}}}
ValidDefinitions ==
  {Obj(<<Ent(N_p, Obj(<<>>))>>),
   Obj(<<Ent(N_xp, Obj(<<OnId>>)), Ent(N_c, Obj(<<OnId>>))>>)}

\* source.join(definition), with a new object that holds a valid definition
JoinValid ==
  /\ pc = "join"
  /\ Len(returned) < MaxCalls
  /\ \E definition \in ValidDefinitions :
       Joins(definition, join(Db, source, definition, entityCache, TRUE))
  /\ pc' = "join"
  /\ UNCHANGED <<source, callerDefinition, originalDefinition, selectOptions,
                 keyVars, predVars, compileVars, pkSearch, insertVars>>

NextRejoin == Join \/ JoinCopy \/ JoinValid

SpecRejoin == InitJoin /\ [][NextRejoin]_vars

(***************************************************************************)
(* Insert as a state machine: an Insert is constructed on a record or a    *)
(* batch of records, with options, and formatted                           *)
(***************************************************************************)

\* the most records of a batch
MaxRecords == 2

N_u_id == <<"u","_","i","d">>
N_sw == <<"s",".","w">>

\* the dependent records of one relationship: one record; two of the same
\* keys; a second with a key more, with a key less, with a value where the
\* first has undefined; none; and a value that is no array
DependentRecords ==
  {Arr(<<Obj(<<Ent(N_u_id, Undefined), Ent(N_x, Num(1))>>)>>),
   Arr(<<Obj(<<Ent(N_u_id, Undefined), Ent(N_x, Num(1))>>),
         Obj(<<Ent(N_u_id, Undefined), Ent(N_x, Num(2))>>)>>),
   Arr(<<Obj(<<Ent(N_u_id, Undefined), Ent(N_x, Num(1))>>),
         Obj(<<Ent(N_u_id, Undefined), Ent(N_x, Num(2)), Ent(N_t, Num(3))>>)>>),
   Arr(<<Obj(<<Ent(N_u_id, Undefined), Ent(N_x, Num(1)), Ent(N_t, Num(2))>>),
         Obj(<<Ent(N_u_id, Undefined), Ent(N_x, Num(3))>>)>>),
   Arr(<<Obj(<<Ent(N_u_id, Undefined), Ent(N_x, Num(1))>>),
         Obj(<<Ent(N_u_id, Num(4)), Ent(N_x, Num(2))>>)>>),
   Arr(<<>>),
   Num(5)}

\* records of the relation's own columns
PlainRecords ==
  {Obj(<<Ent(N_id, Num(1))>>),
   Obj(<<Ent(N_n, Num(2))>>),
   Obj(<<Ent(N_n, Num(2)), Ent(N_id, Num(1))>>)}

\* records with one or two keys that are no columns
DeepRecords ==
  {Obj(<<Ent(N_n, Num(2)), Ent(N_v, d)>>) : d \in DependentRecords}
    \cup {Obj(<<Ent(N_v, d), Ent(N_n, Num(2)), Ent(N_sw, e)>>) :
            <<d, e>> \in DependentRecords \X DependentRecords}

\* the record argument: a record, or a batch of up to MaxRecords
InsertRecords ==
  PlainRecords \cup DeepRecords
    \cup {Arr(b) :
            b \in SeqsUpTo(PlainRecords
                             \cup {Obj(<<Ent(N_n, Num(2)),
                                         Ent(N_v, Arr(<<Obj(<<Ent(N_x, Num(1))>>)>>))>>)},
                           MaxRecords)}

\* the options argument: each conflict option absent, null, false or set
InsertOptions ==
  {Obj(Opt(S_onConflictIgnore, i) \o Opt(S_onConflictUpdate, u)
         \o Opt(S_onConflictUpdateExclude, x) \o Opt(S_onConflict, c)
         \o Opt(S_deepInsert, d)) :
     <<i, u, x, c, d>> \in
       {Undefined, Null, Bool(FALSE), Bool(TRUE)}
         \X {Undefined, Bool(FALSE), Arr(<<Str(N_id)>>)}
         \X {Undefined, Arr(<<Str(N_n)>>)}
         \X {Undefined,
             Obj(<<Ent(S_action, Str(<<"I","G","N","O","R","E">>))>>),
             Obj(<<Ent(S_target, Str(N_id)), Ent(S_action, Str(S_update))>>),
             Obj(<<Ent(S_targetExpr, Str(N_id))>>)}
         \X {Undefined, Bool(TRUE)}}

InitInsert ==
  /\ Idle
  /\ NoJoin
  /\ key = <<>>
  /\ source \in {Users, Memberships, Recent, Joined}
  /\ criteria = Obj(<<>>)

\* new Insert(source, record, options)
NewInsert ==
  /\ pc = "ready"
  /\ \E record \in InsertRecords, options \in InsertOptions :
       /\ insertRecord' = record
       /\ insertOptions' = options
       /\ statement' = Insert(source, record, options)
  /\ pc' = "statement"
  /\ UNCHANGED <<source, criteria, offset, kind, joinAlias, changes, assemblage,
                 formats, sql, keyVars, selectOptions, joinVars,
                 compileVars, pkSearch>>

NextInsert == NewInsert \/ Format

SpecInsert == InitInsert /\ [][NextInsert]_vars

(***************************************************************************)
(* What the properties speak of                                            *)
(***************************************************************************)

IsDigit(c) == \E i \in 1..Len(DigitChars) : DigitChars[i] = c
DigitValue(c) == (CHOOSE i \in 1..Len(DigitChars) : DigitChars[i] = c) - 1

\* the number whose digits start at text[i], acc being the digits read so far
RECURSIVE ReadOrdinal(_, _, _)
ReadOrdinal(text, i, acc) ==
  IF i <= Len(text) /\ IsDigit(text[i])
    THEN ReadOrdinal(text, i + 1, acc * 10 + DigitValue(text[i]))
    ELSE acc

\* where the placeholders $n of a text start
PlaceholderStarts(text) ==
  {i \in 1..(Len(text) - 1) : text[i] = "$" /\ IsDigit(text[i + 1])}

\* the ordinals of the placeholders $n of a text, left to right
Placeholders(text) ==
  LET starts == PlaceholderStarts(text)
      nth(k) == CHOOSE i \in starts : Cardinality({j \in starts : j < i}) = k - 1
  IN [k \in 1..Cardinality(starts) |-> ReadOrdinal(text, nth(k) + 1, 0)]

\* $k+1, ..., $k+n
Ordinals(k, n) == [i \in 1..n |-> k + i]

\* a text without its blanks
NoSpaces(text) == SelectSeq(text, LAMBDA c : c # " ")

IsGroupKey(k) == k \in {S_or, S_dollar_or, S_and, S_dollar_and}

\* the field comparisons of a criteria tree, left to right
RECURSIVE LeavesOfEntries(_)
RECURSIVE LeavesOfMembers(_)
LeavesOfEntries(entries) ==
  IF entries = <<>> THEN <<>>
  ELSE (IF IsGroupKey(Head(entries).s)
          THEN LeavesOfMembers(Members(Head(entries).a[1]))
          ELSE <<Head(entries)>>)
       \o LeavesOfEntries(Tail(entries))

LeavesOfMembers(members) ==
  IF members = <<>> THEN <<>>
  ELSE LeavesOfEntries(Entries(Head(members)))
         \o LeavesOfMembers(Tail(members))

LeafEntries(crit) == LeavesOfEntries(Entries(crit))

\* the criteria compiled as the call under way compiles them, at offset off
Compiled(crit, off) == predicate(source, crit, off, kind, joinAlias)

\* a field comparison that, compiled alone, emits one placeholder and gives
\* its value as the one parameter
ConsumesOne(entry) ==
  LET alone == Compiled(Obj(<<entry>>), 0)
  IN /\ ~alone.threw
     /\ Placeholders(alone.predicate) = <<1>>
     /\ alone.params = <<entry.a[1]>>

\* a criteria tree was compiled: field comparisons and groups, no prebuilt
\* conditions
TreeCompiled ==
  /\ pc = "predicate"
  /\ ~HasOwn(criteria, S_conditions)

\* a criteria map without groups was compiled
FlatCompiled ==
  /\ TreeCompiled
  /\ \A i \in 1..Len(criteria.a) : ~IsGroupKey(criteria.a[i].s)

\* the i-th key of the criteria as conjoin parses it, and its value
LeafParsed(i) ==
  parseKey(LeafName(criteria.a[i].s, kind, joinAlias), source, TRUE)
LeafValue(i) == criteria.a[i].a[1]

\* the value as the mutator gets it: conjoin turns the value of a comparison
\* on a JSON path into text first (readable.js, lines 361-363)
LeafOperand(i) ==
  IF LeafParsed(i).isJSON /\ Truthy(LeafValue(i))
    THEN stringify(LeafValue(i)) ELSE LeafValue(i)

\* the keys before and after the i-th
Before(i) == Obj(SubSeq(criteria.a, 1, i - 1))
After(i) == Obj(SubSeq(criteria.a, i + 1, Len(criteria.a)))

\* the ordinal the i-th comparison is compiled at: one past the parameters
\* of the offset and of the comparisons before it
LeafOrdinal(i) == offset + Len(Compiled(Before(i), offset).params) + 1

\* the i-th comparison adds the parameters added and uses m ordinals: the
\* parameters are those of the comparisons before it, added, and those of
\* the comparisons after it compiled m ordinals further on, whose texts are as
\* compiled there
LeafAdds(i, added, m) ==
  LET rest == Compiled(After(i), LeafOrdinal(i) - 1 + m)
  IN /\ assemblage.params = Compiled(Before(i), offset).params \o added
                              \o rest.params
     /\ \A j \in (i + 1)..Len(criteria.a) :
          assemblage.predicates[j] = rest.predicates[j - i]

EqualityKeys == {UNDEF, <<"=">>}
InequalityKeys == {<<"!">>, <<"!","=">>, <<"<",">">>}

(***************************************************************************)
(* Properties of the predicate compiler                                    *)
(***************************************************************************)

\* C1: when a criteria tree (field comparisons mixed with nested or/$or and
\* and/$and groups) whose every field comparison consumes one parameter is
\* compiled at offset k, the placeholders of the predicate text are, left to
\* right, $k+1, ..., $k+|params| without gap or repeat, and the parameters
\* are the values of the field comparisons in the same order.
PlaceholdersContiguous ==
  (/\ TreeCompiled
   /\ \A i \in 1..Len(LeafEntries(criteria)) :
        ConsumesOne(LeafEntries(criteria)[i]))
    => /\ ~assemblage.threw
       /\ Placeholders(assemblage.predicate)
            = Ordinals(offset, Len(assemblage.params))
       /\ assemblage.params
            = [i \in 1..Len(LeafEntries(criteria)) |->
                 LeafEntries(criteria)[i].a[1]]

\* {name: 'Alice', $or: [{and: [{name: 'Alice'},
\*                              {name: 'Alice', 'age >=': 21},
\*                              {'age >=': 21}]}], 'age >=': 21}
NestedCriteria ==
  Obj(<<LeafA,
        Ent(S_dollar_or,
            Arr(<<Obj(<<Ent(S_and,
                            Arr(<<Obj(<<LeafA>>), Obj(<<LeafA, LeafB>>),
                                  Obj(<<LeafB>>)>>))>>)>>)),
        LeafB>>)

\* the nested tree compiled at offset 9 into $10 ... $15
NestedTreeCompiled ==
  /\ TreeCompiled
  /\ criteria = NestedCriteria
  /\ offset = 9
  /\ Placeholders(assemblage.predicate) = <<10, 11, 12, 13, 14, 15>>

\* C2: a criteria map of n field comparisons without groups, each with a
\* number or a string (0 and '' included) under any operation of the table,
\* compiles at offset k to a predicate with exactly the placeholders
\* $k+1 ... $k+n and to n parameters.
ScalarLeavesGetPlaceholders ==
  (/\ FlatCompiled
   /\ \A i \in 1..Len(criteria.a) : LeafValue(i).t \in {"number", "string"})
    => /\ ~assemblage.threw
       /\ Placeholders(assemblage.predicate)
            = Ordinals(offset, Len(criteria.a))
       /\ Len(assemblage.params) = Len(criteria.a)

\* "name" = $1 AND "age" >= $2
S_example ==
  <<"\"","n","a","m","e","\""," ","="," ","$","1"," ","A","N","D"," ",
    "\"","a","g","e","\""," ",">","="," ","$","2">>

\* an object {operatorToken: operand} with a token of the operator table
IsOperatorMap(v) ==
  /\ v.t = "object"
  /\ Len(v.a) = 1
  /\ v.a[1].s \in OperationKeys

\* C3 as stated: {name: 'Alice', age: {'>=': 21}} compiles on a table at
\* offset 0 to "name" = $1 AND "age" >= $2 with the parameters 'Alice' and 21,
\* and a comparison whose value is a map {operatorToken: operand} compiles to
\* <lhs> <operator> $k with the operand as its parameter.
OperatorMapCompiles ==
  FlatCompiled
    => /\ (/\ criteria = Obj(<<LeafA, Ent(N_age, OperatorMap)>>)
           /\ source = Users
           /\ offset = 0)
            => /\ assemblage.predicate = S_example
               /\ assemblage.params = <<Str(S_Alice), Num(21)>>
       /\ \A i \in 1..Len(criteria.a) :
            (IsOperatorMap(LeafValue(i)) /\ LeafParsed(i).remainder = UNDEF)
              => /\ assemblage.predicates[i]
                      = LeafParsed(i).lhs \o <<" ">>
                          \o ops(LeafValue(i).a[1].s).operator \o <<" ">>
                          \o Placeholder(LeafOrdinal(i))
                 /\ LeafAdds(i, <<LeafValue(i).a[1].a[1]>>, 1)

\* C3, amended: the operator is read from the key.  {name: 'Alice',
\* 'age >=': 21} compiles on a table at offset 0 to
\* "name" = $1 AND "age" >= $2 with the parameters 'Alice' and 21, and a
\* comparison on a column whose key has no operation and whose value is a map
\* {operatorToken: operand} compiles to <lhs> = $k with the map itself as its
\* parameter.
OperatorReadFromKey ==
  FlatCompiled
    => /\ (/\ criteria = Obj(<<LeafA, LeafB>>)
           /\ source = Users
           /\ offset = 0)
            => /\ assemblage.predicate = S_example
               /\ assemblage.params = <<Str(S_Alice), Num(21)>>
       /\ \A i \in 1..Len(criteria.a) :
            (/\ IsOperatorMap(LeafValue(i))
             /\ LeafParsed(i).remainder = UNDEF
             /\ ~LeafParsed(i).isJSON)
              => /\ ~assemblage.threw
                 /\ assemblage.predicates[i]
                      = LeafParsed(i).lhs \o <<" ","="," ">>
                          \o Placeholder(LeafOrdinal(i))
                 /\ LeafAdds(i, <<LeafValue(i)>>, 1)

\* {name: 'Alice', age: {'>=': 21}} compiled on the table at offset 0
OperatorMapCompiled ==
  /\ FlatCompiled
  /\ criteria = Obj(<<LeafA, Ent(N_age, OperatorMap)>>)
  /\ source = Users
  /\ offset = 0
  /\ Len(assemblage.params) = 2

\* ($n,...,$n+m-1), the placeholder of a timestamp carrying its cast
InList(n, elements) ==
  <<"(">>
    \o JoinWith([j \in 1..Len(elements) |->
                   Placeholder(n + j - 1)
                     \o (IF elements[j].t = "date" THEN S_timestamptz
                         ELSE <<>>)],
                <<",">>)
    \o <<")">>

\* C4: an equality (=) or inequality (!, !=, <>) comparison with an array of
\* m elements, compiled at ordinal n: if m > 0 the operator is IN (for =) or
\* NOT IN, the right-hand side is ($n,...,$n+m-1), the m elements are appended
\* to the parameters in order and the next comparison starts at $n+m; if m = 0
\* the comparison is = ANY('{}') (for =) or <> ALL('{}'), blanks aside, no
\* parameter is added and the next comparison starts at $n.
InListCompiled ==
  FlatCompiled
    => \A i \in 1..Len(criteria.a) :
         (/\ LeafParsed(i).remainder \in EqualityKeys \cup InequalityKeys
          /\ LeafValue(i).t = "array")
           => /\ ~assemblage.threw
              /\ IF Len(LeafValue(i).a) > 0
                   THEN /\ assemblage.predicates[i]
                             = LeafParsed(i).lhs \o <<" ">>
                                 \o (IF LeafParsed(i).remainder \in EqualityKeys
                                       THEN <<"I","N">>
                                       ELSE <<"N","O","T"," ","I","N">>)
                                 \o <<" ">>
                                 \o InList(LeafOrdinal(i), LeafOperand(i).a)
                        /\ LeafAdds(i, LeafOperand(i).a, Len(LeafValue(i).a))
                   ELSE /\ NoSpaces(assemblage.predicates[i])
                             = NoSpaces(LeafParsed(i).lhs)
                                 \o (IF LeafParsed(i).remainder \in EqualityKeys
                                       THEN <<"=","A","N","Y","(","'","{","}","'",")">>
                                       ELSE <<"<",">","A","L","L","(","'","{","}","'",")">>)
                        /\ LeafAdds(i, <<>>, 0)

\* {name: [], 'age <>': [1, <timestamp>]} compiled at offset 9
InListsCompiled ==
  /\ FlatCompiled
  /\ criteria = Obj(<<Ent(N_name, Arr(<<>>)),
                      Ent(LeafKey(N_age, FALSE, <<"<",">">>),
                          Arr(<<Num(1), Date(2)>>))>>)
  /\ offset = 9
  /\ Placeholders(assemblage.predicate) = <<10, 11>>

IsLiteralCompiled ==
  FlatCompiled
    => \A i \in 1..Len(criteria.a) :
         (/\ LeafParsed(i).remainder \in EqualityKeys \cup InequalityKeys
          /\ ~LeafParsed(i).isJSON
          /\ LeafValue(i) \in Literals)
           => /\ ~assemblage.threw
              /\ assemblage.predicates[i]
                   = LeafParsed(i).lhs
                       \o (IF LeafParsed(i).remainder \in EqualityKeys
                             THEN <<" ","I","S"," ">>
                             ELSE <<" ","I","S"," ","N","O","T"," ">>)
                       \o (CASE LeafValue(i) = Null -> S_null
                             [] LeafValue(i) = Bool(TRUE) -> S_true
                             [] OTHER -> S_false)
              /\ Placeholders(assemblage.predicates[i]) = <<>>
              /\ LeafAdds(i, <<>>, 0)

\* {name: null, 'age >=': 21} compiled at offset 9
NullThenLeafCompiled ==
  /\ FlatCompiled
  /\ criteria = Obj(<<Ent(N_name, Null), LeafB>>)
  /\ offset = 9
  /\ Placeholders(assemblage.predicate) = <<10>>

\* C8: compiling a between comparison whose value is not a sequence of
\* exactly two elements fails: there is an error, no predicate and no
\* parameters.
BetweenRejectsMalformed ==
  (/\ FlatCompiled
   /\ \E i \in 1..Len(criteria.a) :
        /\ LeafParsed(i).remainder = S_between
        /\ ~(LeafValue(i).t = "array" /\ Len(LeafValue(i).a) = 2))
    => /\ assemblage.threw
       /\ assemblage.predicate = <<>>
       /\ assemblage.params = <<>>

(***************************************************************************)
(* Properties of the statements                                            *)
(***************************************************************************)

S_WHERE_TRUE == <<"W","H","E","R","E"," ","T","R","U","E">>
S_AND_TRUE == <<" ","A","N","D"," ","(","T","R","U","E",")">>

\* {} compiles to TRUE without parameters, at every offset and for every kind
EmptyCompilesToTrue ==
  (pc = "predicate" /\ criteria = Obj(<<>>))
    => /\ ~assemblage.threw
       /\ assemblage.predicate = S_TRUE
       /\ assemblage.params = <<>>

\* a statement built from {} carries the predicate TRUE and no parameter but
\* those of its changes and of the ON clauses of its joins; only the $set of
\* an Update makes the constructor fail
EmptyStatement ==
  (pc = "statement" /\ criteria = Obj(<<>>) /\ formats = 0)
    => IF statement.threw
         THEN /\ statement.type = "Update"
              /\ HasOwn(changes, S_set)
         ELSE
       /\ statement.predicate = S_TRUE
       /\ statement.params
            = (IF statement.type = "Update"
                 THEN prepareParams(Pick(changes, Append(source.columnNames, S_set)))
                 ELSE <<>>)
              \o JoinParams(source.joins)

FirstJoin(hits) ==
  IF hits = {} THEN 0 ELSE CHOOSE i \in hits : \A j \in hits : i <= j

\* the rules 1-6 in their order, tokens matching as wholes: the alias the
\* key resolves to (UNDEF for the origin) and the column it names
Resolved(tokens) ==
  LET byAlias == FirstJoin({i \in 1..Len(source.joins) :
                              source.joins[i].alias = Tok(tokens, 1)})
      byName == FirstJoin({i \in 1..Len(source.joins) :
                             source.joins[i].relation = Tok(tokens, 1)})
      bySchema == FirstJoin({i \in 1..Len(source.joins) :
                               /\ source.joins[i].schema = Tok(tokens, 1)
                               /\ source.joins[i].relation = Tok(tokens, 2)})
  IN IF source.name = Tok(tokens, 1)
       THEN [alias |-> UNDEF, field |-> Tok(tokens, 2)]
     ELSE IF source.schema = Tok(tokens, 1) /\ source.name = Tok(tokens, 2)
       THEN [alias |-> UNDEF, field |-> Tok(tokens, 3)]
     ELSE IF byAlias > 0
       THEN [alias |-> source.joins[byAlias].alias, field |-> Tok(tokens, 2)]
     ELSE IF byName > 0
       THEN [alias |-> source.joins[byName].alias, field |-> Tok(tokens, 2)]
     ELSE IF bySchema > 0
       THEN [alias |-> source.joins[bySchema].alias, field |-> Tok(tokens, 3)]
     ELSE [alias |-> UNDEF, field |-> Tok(tokens, 1)]

\* C9: parseKey on a compound Readable strips the leading tokens by the first
\* applicable of the rules 1-6, a token matching as a whole: a first token
\* that is the alias of a join node resolves to that node before any relation
\* name is looked at, and a first token that is no origin name or schema and
\* no alias, relation name or schema of a join resolves to the origin with
\* the token as the column.
RulesInOrder ==
  (pc = "parseKey" /\ source.loader = "join")
    => /\ parsed.alias = Resolved(lex(key).tokens).alias
       /\ parsed.field = Resolved(lex(key).tokens).field

\* C10: for a key with a JSON path and a ::type cast, parseKey emits ->> when
\* the path has one segment and #>> when it has more, whatever jsonAsText the
\* caller passes (Select.buildOrderExpression passes false for an order entry
\* without a type).
CastForcesAsText ==
  LET text == IF pc = "parseKey" THEN parsed.lhs ELSE orderExpr.text
      target == parseKey(key, source, TRUE)
  IN (/\ pc \in {"parseKey", "buildOrderExpression"}
      /\ ~orderExpr.threw
      /\ lex(key).hasCast
      /\ target.isJSON)
       => IF Len(target.jsonElements) = 1
            THEN Includes(text, S_arrowText)
            ELSE Includes(text, S_hashText)

(***************************************************************************)
(* Properties of join()                                                    *)
(***************************************************************************)

\* the relation a node of a definition names: val.relation || key
NamedBy(node) ==
  IF Truthy(Get(node.a[1], S_relation))
    THEN ToStr(Get(node.a[1], S_relation))
    ELSE node.s

\* the foreign keys that connect two different relations, as column pairs
\* <<column of a, column of b>>: the keys of a that reference b and the keys
\* of b that reference a
Connecting(a, b) ==
  {[i \in 1..Len(a.fks[k].dependent_columns) |->
      <<a.fks[k].dependent_columns[i], a.fks[k].origin_columns[i]>>] :
     k \in {k \in 1..Len(a.fks) : /\ a.fks[k].origin_schema = b.schema
                                   /\ a.fks[k].origin_name = b.name}}
    \cup
  {[i \in 1..Len(b.fks[k].dependent_columns) |->
      <<b.fks[k].origin_columns[i], b.fks[k].dependent_columns[i]>>] :
     k \in {k \in 1..Len(b.fks) : /\ b.fks[k].origin_schema = a.schema
                                   /\ b.fks[k].origin_name = a.name}}

\* the ON predicate of column pairs: "alias"."left" = <parent>."right", ...
PairsPredicate(alias, parent, pairs) ==
  JoinWith([i \in 1..Len(pairs) |->
              quote(alias) \o <<".">> \o quote(pairs[i][1])
                \o <<" ","="," ">> \o parent \o <<".">> \o quote(pairs[i][2])],
           S_AND)

\* the first call was given one node that names a table other than the
\* origin under a fresh alias and leaves `on` to the foreign keys
OneKeyedNode ==
  /\ Len(returned) = 1
  /\ returned[1].passed.t = "object"
  /\ Len(returned[1].passed.a) = 1
  /\ returned[1].passed.a[1] \in KeyedNodes
  /\ returned[1].passed.a[1].s # source.name
  /\ DbHas(Db, UNDEF, NamedBy(returned[1].passed.a[1]))

\* C11: when a node omits `on`, join() succeeds if exactly one foreign key
\* connects the node's relation and its parent (declared on either side) and
\* joins on that key's column pairs, the node's columns on the left and the
\* parent's, prefixed by the parent alias, on the right; with no such key or
\* several, join() fails.  A key that does not connect the two relations, a
\* self-reference of the node's relation say, does not count.
FkJoinKeyDerived ==
  OneKeyedNode =>
    LET node == returned[1].passed.a[1]
        keys == Connecting(DbGet(Db, UNDEF, NamedBy(node)), source)
    IN IF Cardinality(keys) = 1
         THEN /\ ~joinResult.threw
              /\ joinResult.clone.joins[1].on.predicate =
                   PairsPredicate(node.s, source.delimitedFullName,
                                  CHOOSE pairs \in keys : TRUE)
         ELSE joinResult.threw

\* the alias a node of a definition goes by, its relation and its schema
AliasOf(node) ==
  IF Truthy(Get(node.a[1], S_relation)) THEN node.s
  ELSE lex(node.s).tokens[Len(lex(node.s).tokens)]

RelationOf(node) == lex(NamedBy(node)).tokens[Len(lex(NamedBy(node)).tokens)]

SchemaOf(node) ==
  IF Len(lex(NamedBy(node)).tokens) > 1 THEN lex(NamedBy(node)).tokens[1]
  ELSE UNDEF

\* the child nodes of a node of a definition, as declared
ChildrenOf(node) ==
  SelectSeq(Entries(node.a[1]), LAMBDA e : e.s \notin NodeProperties)

\* the nodes of a forest of definition nodes in pre-order, each with its
\* ancestors from the root down
RECURSIVE PreOrder(_, _)
PreOrder(forest, above) ==
  IF forest = <<>> THEN <<>>
  ELSE <<[node |-> Head(forest), above |-> above]>>
         \o PreOrder(ChildrenOf(Head(forest)), Append(above, Head(forest)))
         \o PreOrder(Tail(forest), above)

\* the nodes of the definition the last call was passed
PassedNodes ==
  PreOrder(Entries(Reducible(returned[Len(returned)].passed)), <<>>)

\* a node's alias is the origin's name or the alias of an earlier node
RepeatsAlias(nodes) ==
  \E i \in 1..Len(nodes) :
     \/ AliasOf(nodes[i].node) = source.name
     \/ \E j \in 1..(i - 1) : AliasOf(nodes[j].node) = AliasOf(nodes[i].node)

\* a node names a relation the catalog does not hold
NamesUnknown(nodes) ==
  \E i \in 1..Len(nodes) :
     ~DbHas(Db, SchemaOf(nodes[i].node), RelationOf(nodes[i].node))

\* C12: after a successful join() the aliases of the join nodes are pairwise
\* distinct and distinct from the origin's name; a definition in which an
\* alias repeats one already seen in the tree, or in which a node names a
\* relation the catalog does not know, makes join() fail and return no
\* compound.
AliasesDistinct ==
  pc = "join" =>
    /\ ~joinResult.threw =>
         /\ \A i, j \in 1..Len(joinResult.clone.joins) :
              i # j => joinResult.clone.joins[i].alias
                         # joinResult.clone.joins[j].alias
         /\ \A i \in 1..Len(joinResult.clone.joins) :
              joinResult.clone.joins[i].alias # source.name
    /\ (RepeatsAlias(PassedNodes) \/ NamesUnknown(PassedNodes)) =>
         /\ joinResult.threw
         /\ joinResult = NoCompound

\* a join of three nodes succeeded, one of them under an alias of its own
ThreeAliasesJoined ==
  /\ pc = "join"
  /\ ~joinResult.threw
  /\ Len(joinResult.clone.joins) = 3
  /\ \E i \in 1..3 : joinResult.clone.joins[i].alias
                       # joinResult.clone.joins[i].relation

\* C13: the join nodes and the aliased columns of the compound are in
\* pre-order of the definition tree: a node and its columns after its parent
\* and before its own descendants, siblings in declaration order, the
\* origin's columns first.
PreOrderKept ==
  (pc = "join" /\ ~joinResult.threw) =>
    /\ [i \in 1..Len(joinResult.clone.joins) |->
          joinResult.clone.joins[i].alias]
         = [i \in 1..Len(PassedNodes) |-> AliasOf(PassedNodes[i].node)]
    /\ Len(joinResult.clone.columns)
         = Len(source.columns) * (1 + Len(PassedNodes))
    /\ \A i \in 1..Len(source.columns) :
         joinResult.clone.columns[i].alias
           = aliasField(source, source.columns[i].name)
    /\ \A n \in 1..Len(PassedNodes), i \in 1..Len(source.columns) :
         joinResult.clone.columns[n * Len(source.columns) + i].alias
           = AliasOf(PassedNodes[n].node) \o <<"_","_">>
               \o source.columns[i].name

\* a join whose first node has a child and is followed by a sibling
ChildBeforeSibling ==
  /\ pc = "join"
  /\ ~joinResult.threw
  /\ Len(PassedNodes) = 3
  /\ Len(PassedNodes[2].above) = 1
  /\ Len(PassedNodes[3].above) = 0

\* whether a node of a definition is marked omit
Omitted(node) == Truthy(Get(node.a[1], S_omit))

\* where the schema node of a node hangs: the aliases of its ancestors that
\* are not omitted, then its own
SchemaPath(entry) ==
  [i \in 1..Len(SelectSeq(entry.above, LAMBDA a : ~Omitted(a))) |->
     AliasOf(SelectSeq(entry.above, LAMBDA a : ~Omitted(a))[i])]
    \o <<AliasOf(entry.node)>>

\* the primary key columns of a node: its pk option or its relation's
PkOf(node) ==
  IF Truthy(Get(node.a[1], S_pk)) THEN castArray(Get(node.a[1], S_pk))
  ELSE DbGet(Db, SchemaOf(node), RelationOf(node)).pk

\* C14: the decomposition schema mirrors the definition tree restricted to
\* the nodes not marked omit: each such node has a schema node under its alias
\* with the pk aliases <alias>__<pk column> and its column-alias map, nested
\* under the schema node of its nearest ancestor that is not omitted (or the
\* root); a node marked omit has no schema node and still is in the join list.
SchemaMirrorsTree ==
  (pc = "join" /\ ~joinResult.threw) =>
    /\ \A n \in 1..Len(PassedNodes) :
         /\ joinResult.clone.joins[n].alias = AliasOf(PassedNodes[n].node)
         /\ IF Omitted(PassedNodes[n].node)
              THEN \A k \in 1..Len(joinResult.decompositionSchema) :
                     joinResult.decompositionSchema[k].at = <<>>
                       \/ joinResult.decompositionSchema[k].at
                            [Len(joinResult.decompositionSchema[k].at)]
                              # AliasOf(PassedNodes[n].node)
              ELSE \E k \in 1..Len(joinResult.decompositionSchema) :
                     /\ joinResult.decompositionSchema[k].at
                          = SchemaPath(PassedNodes[n])
                     /\ joinResult.decompositionSchema[k].pk
                          = [i \in 1..Len(PkOf(PassedNodes[n].node)) |->
                               AliasOf(PassedNodes[n].node) \o <<"_","_">>
                                 \o PkOf(PassedNodes[n].node)[i]]
                     /\ joinResult.decompositionSchema[k].columns
                          = [i \in 1..Len(source.columns) |->
                               <<AliasOf(PassedNodes[n].node) \o <<"_","_">>
                                   \o source.columns[i].name,
                                 source.columns[i].name>>]
    /\ Len(joinResult.decompositionSchema)
         = 1 + Cardinality({n \in 1..Len(PassedNodes) :
                              ~Omitted(PassedNodes[n].node)})

\* a join in which an omitted node has a child and is followed by a sibling
OmittedParentJoined ==
  /\ pc = "join"
  /\ ~joinResult.threw
  /\ Len(PassedNodes) = 3
  /\ Omitted(PassedNodes[1].node)
  /\ Len(PassedNodes[2].above) = 1
  /\ Len(PassedNodes[3].above) = 0

\* C15: once join(def) has succeeded on an origin, every later join() on it
\* with an identical definition, the same object passed again (with or
\* without a root pk or child nodes) or an equal one, returns the very same
\* cached compound without compiling again, and the cache gains no second
\* entry.
JoinCached ==
  /\ \A i, j \in 1..Len(returned) :
       (i < j /\ ~returned[i].threw) =>
          /\ ~returned[j].threw
          /\ returned[j].hit
          /\ returned[j].object = returned[i].object
  /\ Len(entityCache) <= 1

(***************************************************************************)
(* Properties of Select                                                    *)
(***************************************************************************)

\* the order list of the options the Select was given
OrderOption == Members(Get(selectOptions, S_order))

\* a Select was given a pageLength and an order list whose first entry
\* carries `last`, and nothing else stopped its construction
KeysetPaged ==
  /\ pc = "statement"
  /\ selectOptions # Undefined
  /\ Truthy(Get(selectOptions, S_pageLength))
  /\ ~HasOwn(selectOptions, S_offset)
  /\ ~HasOwn(selectOptions, S_limit)
  /\ OrderOption # <<>>
  /\ HasOwn(OrderOption[1], S_last)
  /\ ~parseLock(selectOptions).threw

\* the parameters of the ON clauses and of the criteria
CriteriaParams ==
  JoinParams(source.joins)
    \o predicate(source, criteria, Len(JoinParams(source.joins)), forWhere,
                 UNDEF).params

\* an entry of this.order without its direction and nulls
OrderExpression(i) ==
  SubSeq(statement.order[i], 1,
         Len(statement.order[i]) - Len(Direction(OrderOption[i]))
           - Len(Nulls(OrderOption[i])))

\* C16: a Select with pageLength and an order list whose first entry carries
\* `last` has the pagination predicate (orderExprs) < (placeholders) when the
\* leading entry's direction is desc and with > otherwise, appended to the
\* predicate with AND; one placeholder per order entry, numbered right after
\* the last criteria parameter; and the `last` values are the final
\* parameters, in the order of the list.
KeysetPagination ==
  KeysetPaged =>
    /\ ~statement.threw
    /\ statement.pagination =
         Parenthesize([i \in 1..Len(OrderOption) |->
                         buildOrderExpression(source, OrderObj(OrderOption[i]),
                                              FALSE).text], <<",">>)
           \o <<" ">>
           \o (IF IsDesc(OrderOption[1]) THEN <<"<">> ELSE <<">">>)
           \o <<" ">>
           \o Parenthesize([i \in 1..Len(OrderOption) |->
                              Placeholder(Len(CriteriaParams) + i)], <<",">>)
    /\ ~Truthy(Get(selectOptions, S_orderBody)) =>
         \A i \in 1..Len(OrderOption) :
            OrderExpression(i)
              = buildOrderExpression(source, OrderObj(OrderOption[i]),
                                     FALSE).text
    /\ Placeholders(statement.pagination)
         = Ordinals(Len(CriteriaParams), Len(OrderOption))
    /\ statement.params
         = CriteriaParams
             \o [i \in 1..Len(OrderOption) |-> Get(OrderOption[i], S_last)]
    /\ formats > 0 =>
         Includes(sql, S_WHERE \o statement.predicate \o S_AND
                         \o statement.pagination)

\* a descending keyset page over two order entries, after criteria and ON
\* parameters, formatted
DescendingPageFormatted ==
  /\ KeysetPaged
  /\ formats = 1
  /\ Len(OrderOption) = 2
  /\ IsDesc(OrderOption[1])
  /\ HasOwn(OrderOption[2], S_last)
  /\ Len(JoinParams(source.joins)) > 0
  /\ Len(CriteriaParams) > Len(JoinParams(source.joins))

\* a Select was given a pageLength without an order list, or with an offset
\* or a limit
PageLengthMisused ==
  /\ pc = "statement"
  /\ selectOptions # Undefined
  /\ Truthy(Get(selectOptions, S_pageLength))
  /\ \/ ~HasOwn(selectOptions, S_order)
     \/ HasOwn(selectOptions, S_offset)
     \/ HasOwn(selectOptions, S_limit)

\* C17: constructing a Select with pageLength fails when no order list is
\* supplied, and fails when an offset or a limit is supplied with it; no
\* statement is produced.
PageLengthChecked ==
  PageLengthMisused =>
    /\ statement.threw
    /\ statement.pagination = UNDEF
    /\ sql = <<>>

\* a Select with pageLength, an order list with `last` and an offset of 0
\* was refused
PagedWithOffsetRefused ==
  /\ PageLengthMisused
  /\ OrderOption # <<>>
  /\ HasOwn(OrderOption[1], S_last)
  /\ Get(selectOptions, S_offset) = Num(0)
  /\ ~HasOwn(selectOptions, S_limit)
  /\ ~parseLock(selectOptions).threw
  /\ statement.threw

\* where a text occurs in another
Occurrences(text, sub) ==
  {i \in 1..(Len(text) - Len(sub) + 1) :
     SubSeq(text, i, i + Len(sub) - 1) = sub}

\* the clauses a formatted Select may have, in the order they are to come
\* in, each with what it begins with and whether the statement has it
SelectClauses ==
  << [present |-> TRUE, text |-> <<"S","E","L","E","C","T"," ">>],
     [present |-> TRUE, text |-> <<" ","F","R","O","M"," ">>] >>
    \o [i \in 1..Len(source.joins) |->
          [present |-> TRUE,
           text |-> <<" ">> \o source.joins[i].type
                      \o <<" ","J","O","I","N"," ">> \o source.joins[i].target
                      \o <<" ","O","N"," ">>]]
    \o << [present |-> TRUE, text |-> <<" ">> \o S_WHERE \o statement.predicate],
          [present |-> statement.pagination # UNDEF,
           text |-> S_AND \o <<"(">>],
          [present |-> Len(statement.order) > 0,
           text |-> <<" ","O","R","D","E","R"," ","B","Y"," ">>],
          [present |-> Truthy(statement.lock),
           text |-> <<" ","F","O","R"," ">>],
          [present |-> Truthy(statement.pageLength),
           text |-> <<" ","F","E","T","C","H"," ","F","I","R","S","T"," ">>],
          [present |-> Truthy(statement.offset),
           text |-> <<" ","O","F","F","S","E","T"," ">>],
          [present |-> statement.single \/ Truthy(statement.limit),
           text |-> <<" ","L","I","M","I","T"," ">>] >>

\* C18: in the SQL of Select.format the clauses that are present come in the
\* order SELECT list, FROM [ONLY] relation, JOIN clauses in pre-order, WHERE
\* predicate [AND pagination predicate], ORDER BY, lock clause, FETCH FIRST n
\* ROWS ONLY, OFFSET, LIMIT, whatever the options.
ClausesInOrder ==
  (pc = "statement" /\ statement.type = "Select" /\ formats > 0) =>
    /\ \A c \in 1..Len(SelectClauses) :
         Cardinality(Occurrences(sql, SelectClauses[c].text))
           = IF SelectClauses[c].present THEN 1 ELSE 0
    /\ \A c, d \in 1..Len(SelectClauses) :
         (c < d /\ SelectClauses[c].present /\ SelectClauses[d].present) =>
            \A i \in Occurrences(sql, SelectClauses[c].text),
               j \in Occurrences(sql, SelectClauses[d].text) :
               i < j
    /\ Occurrences(sql, SelectClauses[1].text) = {1}

\* a Select over two joins with a pagination predicate, an ORDER BY, a lock
\* with its locked rows, a page length and a row limit, formatted
EveryClauseFormatted ==
  /\ pc = "statement"
  /\ statement.type = "Select"
  /\ formats = 1
  /\ Len(source.joins) = 2
  /\ statement.pagination # UNDEF
  /\ Truthy(statement.lock)
  /\ Truthy(Get(statement.lock, S_lockedRows))
  /\ statement.single
  /\ statement.distinct

(***************************************************************************)
(* Properties of Update and Delete                                         *)
(***************************************************************************)

\* C19: an Update or Delete against a compound Readable with the join nodes
\* j1..jm has FROM (Update) or USING (Delete) naming j1's aliased target
\* relation, then a JOIN clause with its ON predicate for each of j2..jm, and
\* the WHERE clause is j1's ON predicate, AND, the criteria predicate in
\* parentheses, also when j1's ON predicate has several column pairs.
CompoundFormatted ==
  (/\ pc = "statement"
   /\ statement.type \in {"Update", "Delete"}
   /\ source.loader = "join"
   /\ formats = 1)
    => /\ Includes(sql,
                   (IF statement.type = "Update"
                      THEN <<" ","F","R","O","M"," ">>
                      ELSE <<" ","U","S","I","N","G"," ">>)
                     \o source.joins[1].target \o <<" ">>
                     \o JoinClauses(source.joins, 2, FALSE)
                     \o S_WHERE \o source.joins[1].on.predicate
                     \o S_AND \o <<"(">>)
       /\ \E i \in Occurrences(sql, S_RETURNING) :
            /\ i > 3
            /\ SubSeq(sql, i - 3, i - 1) = <<")"," "," ">>

\* the $set map of the changes of the Update at hand, {} when there is none
SetMap ==
  IF HasOwn(changes, S_set) THEN Get(changes, S_set) ELSE Obj(<<>>)

SetKeys == {SetMap.a[i].s : i \in 1..Len(SetMap.a)}

ChangeKeys == {changes.a[i].s : i \in 1..Len(changes.a)}

\* the names of the columns the changes have a value for, in column order
ChangedColumns ==
  SelectSeq(source.columnNames, LAMBDA c : HasOwn(changes, c))

\* one "col" = $i for each changed column, then one "col" = <expr> for each
\* entry of the $set map
ExpectedSet ==
  [i \in 1..Len(ChangedColumns) |->
     quote(ChangedColumns[i]) \o <<" ","="," ">> \o Placeholder(i)]
  \o [i \in 1..Len(SetMap.a) |->
        quote(SetMap.a[i].s) \o <<" ","="," ">> \o ToStr(SetMap.a[i].a[1])]

UpdateBuilt == pc = "statement" /\ statement.type = "Update"

\* the criteria alone are accepted: a Delete of them is built
CriteriaAccepted ==
  ~ Delete(source, criteria,
           [only |-> FALSE, single |-> FALSE, document |-> FALSE]).threw

\* the SET list is as expected when the keys in SharedKeys make the Update fail
SetBuilt(SharedKeys) ==
  UpdateBuilt =>
    /\ SharedKeys # {} => statement.threw
    /\ (SharedKeys = {} /\ CriteriaAccepted) =>
         /\ ~ statement.threw
         /\ formats = 0 => statement.changes = ExpectedSet

\* C20 as stated: an Update whose $set map has a key that is also a key of the
\* changes map fails; otherwise SET holds one "col" = $i for each change of a
\* real column and one "col" = <expr> for each $set entry, and no assignment
\* for a change key that is not a column.
SetKeysApart == SetBuilt(SetKeys \cap ChangeKeys)

\* C20: an Update whose $set map has a key that is also a key of the changes
\* map and is a column of the relation or `$set` fails; otherwise SET holds
\* one "col" = $i for each change of a real column and one "col" = <expr> for
\* each $set entry, and no assignment for a change key that is not a column.
SetKeysApartFromColumns ==
  SetBuilt({k \in SetKeys \cap ChangeKeys :
              k = S_set \/ \E i \in 1..Len(source.columnNames) :
                             source.columnNames[i] = k})

\* an Update is built whose $set map shares only a key that is no column with
\* the changes: SET has the column's and the $set map's assignment
NonColumnKeyShared ==
  /\ UpdateBuilt
  /\ ~ statement.threw
  /\ formats = 0
  /\ N_zz \in SetKeys \cap ChangeKeys
  /\ Len(statement.changes) = 2

\* the lock options a Select was given
LocksSupplied ==
  {k \in {S_forUpdate, S_forShare, S_lock} : HasOwn(selectOptions, k)}

\* the setting a lone lock option stands for
NormalizedLock(k) ==
  IF k = S_forUpdate THEN Obj(<<Ent(S_strength, Str(S_UPDATE))>>)
  ELSE IF k = S_forShare THEN Obj(<<Ent(S_strength, Str(S_SHARE))>>)
  ELSE Get(selectOptions, S_lock)

SelectBuilt ==
  pc = "statement" /\ statement.type = "Select" /\ selectOptions # Undefined

\* more than one lock option fails; one of the lock options in Selected,
\* alone, gives its setting and one FOR clause
LocksParsed(Selected) ==
  SelectBuilt =>
    /\ Cardinality(LocksSupplied) > 1 => statement.threw
    /\ \A k \in Selected :
         LocksSupplied = {k} =>
           /\ (~HasOwn(selectOptions, S_pageLength)
                 /\ ~HasOwn(selectOptions, S_order)
                 /\ criteria = Obj(<<>>)) => ~statement.threw
           /\ ~statement.threw =>
                /\ statement.lock = NormalizedLock(k)
                /\ formats > 0 =>
                     Cardinality(Occurrences(sql, <<" ","F","O","R"," ">>)) = 1

\* C23 as stated: a Select with more than one of forUpdate, forShare and lock
\* fails; with exactly one its lock is the normalized setting (UPDATE for
\* forUpdate, SHARE for forShare, the lock object for lock) and the formatted
\* statement has exactly one FOR clause.
LockNormalized == LocksParsed({S_forUpdate, S_forShare, S_lock})

\* C23: a Select with more than one of forUpdate, forShare and lock fails;
\* with exactly one, a forUpdate or forShare of false apart, its lock is the
\* normalized setting and the formatted statement has exactly one FOR clause.
LockNormalizedUnlessFalse ==
  LocksParsed({k \in {S_forUpdate, S_forShare, S_lock} :
                 Truthy(Get(selectOptions, k))})

\* a Select with forShare: true alone was formatted with FOR SHARE
ForShareFormatted ==
  /\ SelectBuilt
  /\ LocksSupplied = {S_forShare}
  /\ Truthy(Get(selectOptions, S_forShare))
  /\ formats > 0
  /\ Includes(sql, <<" ","F","O","R"," ","S","H","A","R","E">>)

(***************************************************************************)
(* Properties of a repeated compile                                        *)
(***************************************************************************)

\* C24: compiling the same criteria twice against the same relation, offset
\* and kind gives the same predicate text and the same params both times, and
\* a compile leaves the operator table as it was, also when a mutator rewrote
\* the operator to IS, IS NOT, IN or NOT IN.
CompileRepeatable ==
  /\ operations = map
  /\ \A i, j \in 1..Len(compiles) :
       /\ compiles[i].threw = compiles[j].threw
       /\ compiles[i].predicate = compiles[j].predicate
       /\ compiles[i].params = compiles[j].params

\* criteria with a null and an array under plain keys were compiled twice: the
\* mutators wrote IS and IN
RewrittenCompiledTwice ==
  /\ Len(compiles) = 2
  /\ ~ compiles[2].threw
  /\ Includes(compiles[2].predicate, <<" ","I","S"," ">>)
  /\ Includes(compiles[2].predicate, <<" ","I","N"," ">>)

(***************************************************************************)
(* Properties of format()                                                  *)
(***************************************************************************)

\* C25: format() does not change a statement: each call returns the same SQL
\* text, and the predicate and the params of the statement stay as they were
\* after construction, for a Select, an Update and a Delete, on a table and
\* on a compound Readable.
FormatPure ==
  [][Format =>
       /\ statement'.predicate = statement.predicate
       /\ statement'.params = statement.params
       /\ formats > 0 => sql' = sql]_vars

(***************************************************************************)
(* Properties of isPkSearch                                                *)
(***************************************************************************)

\* the fields the keys of the criteria refer to
CriteriaFields ==
  {parseKey(criteria.a[i].s, source, TRUE).field : i \in 1..Len(criteria.a)}

\* C26: isPkSearch returns true exactly when the fields the criteria keys
\* refer to are the complete primary key of the source and nothing else: it
\* returns false for a part of a composite primary key, for empty criteria
\* and for a source without a primary key.
PkSearchExact ==
  pc = "isPkSearch" =>
    (pkSearch <=>
       /\ source.pk # UNDEF
       /\ CriteriaFields = {source.pk[i] : i \in 1..Len(source.pk)})

(***************************************************************************)
(* Properties of the parameters of an Update                               *)
(***************************************************************************)

\* the highest ordinal among the placeholders of a text, 0 when it has none
HighestOrdinal(text) ==
  IF PlaceholderStarts(text) = {} THEN 0
  ELSE CHOOSE n \in {ReadOrdinal(text, i + 1, 0) : i \in PlaceholderStarts(text)} :
         \A i \in PlaceholderStarts(text) : ReadOrdinal(text, i + 1, 0) <= n

\* C27: for an Update on a plain relation, with or without a $set map, the
\* SET placeholders are $1..$k, k being the number of changes of real
\* columns; the first k params are the values of those changes in the same
\* order; the criteria placeholders start at $k+1; and the highest placeholder
\* ordinal of the SQL equals the number of params.
UpdateParamsAligned ==
  (/\ UpdateBuilt
   /\ source.loader = "tables"
   /\ ~HasOwn(criteria, S_conditions)
   /\ ~statement.threw)
    => /\ Placeholders(JoinWith(statement.changes, <<",">>))
            = Ordinals(0, Len(ChangedColumns))
       /\ Len(statement.params) >= Len(ChangedColumns)
       /\ \A i \in 1..Len(ChangedColumns) :
            statement.params[i] = Get(changes, ChangedColumns[i])
       /\ Placeholders(statement.predicate) # <<>> =>
            Placeholders(statement.predicate)[1] = Len(ChangedColumns) + 1
       /\ formats > 0 => HighestOrdinal(sql) = Len(statement.params)

(***************************************************************************)
(* Properties of the parameters of a statement on a compound Readable      *)
(***************************************************************************)

\* how many parameters of a statement come before the literals of the joins
ChangeValues ==
  IF statement.type = "Update" THEN Len(ChangedColumns) ELSE 0

\* how many literals the ON criteria of the join nodes before the i-th have
RECURSIVE LiteralsBefore(_)
LiteralsBefore(i) ==
  IF i <= 1 THEN 0
  ELSE LiteralsBefore(i - 1) + Len(source.joins[i - 1].on.params)

\* the ordinals of all the placeholders of a text
OrdinalsIn(text) ==
  {ReadOrdinal(text, i + 1, 0) : i \in PlaceholderStarts(text)}

\* C28: in a Select, Update or Delete on a compound Readable whose ON
\* criteria have literal values, each placeholder $i stands for params[i-1],
\* the value of what emitted it: the literals of the join nodes take
\* consecutive positions in pre-order, after the change values of an Update,
\* and the criteria values follow them.
ParamsTraceable ==
  (/\ pc = "statement"
   /\ statement.type \in {"Select", "Update", "Delete"}
   /\ source.loader = "join"
   /\ ~HasOwn(criteria, S_conditions)
   /\ ~HasOwn(changes, S_set)
   /\ ~statement.threw)
    => /\ \A i \in 1..Len(source.joins) :
            Placeholders(source.joins[i].on.predicate)
              = Ordinals(ChangeValues + LiteralsBefore(i),
                         Len(source.joins[i].on.params))
       /\ Len(statement.params) >= ChangeValues + Len(JoinParams(source.joins))
       /\ \A i \in 1..Len(JoinParams(source.joins)) :
            statement.params[ChangeValues + i] = JoinParams(source.joins)[i]
       /\ formats = 0 =>
            Placeholders(statement.predicate)
              = Ordinals(ChangeValues + Len(JoinParams(source.joins)),
                         Len(statement.params) - ChangeValues
                           - Len(JoinParams(source.joins)))
       /\ formats > 0 => OrdinalsIn(sql) = 1..Len(statement.params)

(***************************************************************************)
(* Properties of a join() that fails                                       *)
(***************************************************************************)

\* a call of join() was made in the step
JoinCalled == Len(returned') = Len(returned) + 1

\* every call of join() before the one made in the step failed
FailedSoFar == \A i \in 1..Len(returned) : returned[i].threw

\* C30: a join() that fails (unknown relation, repeated alias, missing
\* primary key, missing or ambiguous foreign key) leaves the cache of
\* compounds as it was, and a later join() with a valid definition returns
\* what it returns when no call was made before.
FailedJoinLeavesCache ==
  [][JoinCalled =>
       /\ joinResult'.threw => entityCache' = entityCache
       /\ (FailedSoFar /\ returned'[Len(returned')].passed \in ValidDefinitions)
            => /\ joinResult' =
                    join(Db, source, returned'[Len(returned')].passed, <<>>,
                         TRUE).returns
               /\ ~joinResult'.threw
               /\ Len(entityCache') = 1]_vars

\* a join() failed and the join() of a valid definition after it returned a
\* compound, the only one in the cache
ValidJoinedAfterFailure ==
  /\ Len(returned) = 2
  /\ returned[1].threw
  /\ ~returned[2].threw
  /\ ~returned[2].hit
  /\ returned[2].passed \in ValidDefinitions
  /\ Len(entityCache) = 1

(***************************************************************************)
(* Properties of Insert                                                    *)
(***************************************************************************)

InsertBuilt == pc = "statement" /\ statement.type = "Insert"

\* the conflict options an Insert was given a value for
ConflictsSupplied ==
  {k \in {S_onConflictIgnore, S_onConflictUpdate, S_onConflict} :
     Get(insertOptions, k).t \notin {"null", "undefined"}}

\* the policy a lone conflict option stands for
ConflictPolicy(k) ==
  IF k = S_onConflictIgnore THEN Obj(<<Ent(S_action, Str(S_ignore))>>)
  ELSE IF k = S_onConflictUpdate
    THEN Obj(<<Ent(S_action, Str(S_update)),
               Ent(S_target, Get(insertOptions, S_onConflictUpdate)),
               Ent(S_exclude, Get(insertOptions, S_onConflictUpdateExclude))>>)
  ELSE Get(insertOptions, S_onConflict)

\* more than one conflict option fails; one of the options in Selected, alone,
\* gives its policy; none gives none
ConflictsParsed(Selected) ==
  InsertBuilt =>
    /\ Cardinality(ConflictsSupplied) > 1 => statement.threw
    /\ \A k \in Selected :
         (ConflictsSupplied = {k} /\ ~statement.threw) =>
           statement.onConflict = ConflictPolicy(k)
    /\ (ConflictsSupplied = {} /\ ~statement.threw) =>
         statement.onConflict = Undefined

\* C22 as stated: an Insert with more than one of onConflictIgnore,
\* onConflictUpdate and onConflict fails; with exactly one it carries that
\* policy (ignore, update with target and exclusions, or the onConflict
\* object); with none it carries none.
ConflictPolicyParsed ==
  ConflictsParsed({S_onConflictIgnore, S_onConflictUpdate, S_onConflict})

\* C22: an Insert with more than one of onConflictIgnore, onConflictUpdate and
\* onConflict fails; with exactly one, an option of false apart, it carries
\* that policy; with none it carries none.
ConflictPolicyParsedUnlessFalse ==
  ConflictsParsed({k \in {S_onConflictIgnore, S_onConflictUpdate, S_onConflict} :
                     Truthy(Get(insertOptions, k))})

\* an Insert with onConflictUpdate alone, and exclusions, was formatted with
\* DO UPDATE SET
ConflictUpdateFormatted ==
  /\ InsertBuilt
  /\ ConflictsSupplied = {S_onConflictUpdate}
  /\ Truthy(Get(insertOptions, S_onConflictUpdate))
  /\ HasOwn(insertOptions, S_onConflictUpdateExclude)
  /\ ~statement.threw
  /\ formats > 0
  /\ Includes(sql, <<"O","N"," ","C","O","N","F","L","I","C","T"," ","(","\"","i","d","\"",")",
                     " ","D","O"," ","U","P","D","A","T","E"," ","S","E","T"," ">>)

\* the records an Insert was given
RecordsGiven ==
  IF insertRecord.t = "array" THEN insertRecord.a ELSE <<insertRecord>>

\* the keys of the records given that are no columns of the relation
DependentKeys ==
  {k \in UNION {{Entries(RecordsGiven[i])[n].s :
                    n \in 1..Len(Entries(RecordsGiven[i]))} :
                   i \in 1..Len(RecordsGiven)} :
     \A c \in 1..Len(source.columnNames) : source.columnNames[c] # k}

\* the Insert is against a compound relation, or deepInsert was requested
DeepRequested ==
  source.loader = "join" \/ Truthy(Get(insertOptions, S_deepInsert))

\* each dependent-record key of the one record given holds a list of records
DependentsListed ==
  \A k \in DependentKeys :
    /\ Get(RecordsGiven[1], k).t = "array"
    /\ Get(RecordsGiven[1], k).a # <<>>
    /\ Get(RecordsGiven[1], k).a[1].t = "object"

\* C21: an Insert against a compound relation, or with deepInsert, fails when
\* the batch holds more than one record and some record key is no column of
\* the relation; with one record, at most one conflict option and the
\* dependent records given as lists it does not fail.
MultiRecordDeepInsertRejected ==
  (InsertBuilt /\ formats = 0 /\ DeepRequested) =>
    /\ (Len(RecordsGiven) > 1 /\ DependentKeys # {}) => statement.threw
    /\ (Len(RecordsGiven) = 1 /\ Cardinality(ConflictsSupplied) <= 1
          /\ DependentsListed) => ~statement.threw

\* a batch of two records, one with a dependent-record key, was rejected for a
\* table with deepInsert, no conflict option being given
BatchDeepInsertFailed ==
  /\ InsertBuilt
  /\ source.loader = "tables"
  /\ Truthy(Get(insertOptions, S_deepInsert))
  /\ ConflictsSupplied = {}
  /\ Len(RecordsGiven) = 2
  /\ N_v \in DependentKeys
  /\ formats = 0
  /\ statement.threw

\* the dependent records listed under the j-th dependent-record key
Dependents(j) == Get(RecordsGiven[1], statement.junctions[j]).a

\* the defined values of the dependent records of a deep insert: junction j,
\* record d of it, entry e of the record
DependentValues ==
  IF statement.junctions = UNDEF THEN {}
  ELSE UNION {UNION {{<<j, d, e>> :
                       e \in {e \in 1..Len(Entries(Dependents(j)[d])) :
                                Entries(Dependents(j)[d])[e].a[1].t
                                  # "undefined"}} :
                     d \in 1..Len(Dependents(j))} :
              j \in 1..Len(statement.junctions)}

InsertFormatted == InsertBuilt /\ formats > 0 /\ ~statement.threw

\* C29: the text Insert.format gives for r records over c columns has r tuples
\* and the placeholders $1..$(r*c) in order; in a deep insert the placeholders
\* of the dependent INSERTs follow, one for each defined value of each
\* dependent record; and there are as many placeholders as params, whatever
\* the key sets of the dependent records.
PlaceholdersMatchParams ==
  InsertFormatted =>
    /\ Cardinality(Occurrences(sql, <<"(","$">>)) = Len(RecordsGiven)
    /\ Placeholders(sql)
         = Ordinals(0, Len(RecordsGiven) * Len(statement.columns)
                         + Cardinality(DependentValues))
    /\ Len(Placeholders(sql)) = Len(statement.params)


====
